---- MODULE Spec2Model ----
(***************************************************************************)
(* A model of osm-pbf-parser-node: the OSMTransform framing state machine  *)
(* (src/parser.ts), the Blob / BlobHeader readers (src/proto/fileformat.ts)*)
(* the block decoder parse() with its per-entity decoders, the tag option  *)
(* resolution with_tags() and the createOSMStream facade.                  *)
(*                                                                         *)
(* Bytes are naturals 0..255, buffers are sequences of bytes, and offsets  *)
(* are 0-based as in the source (byte at offset p of b is b[p + 1]).       *)
(***************************************************************************)
EXTENDS Integers, Sequences, FiniteSets, TLC

VARIABLES
    phase,      \* "new" | "rejected" | "open" | "ended" | "failed" | "hung" | "decoded"
    osmopts,    \* the options object handed to the constructor
    with,       \* this.with, as resolved by the constructor
    sid,        \* which byte stream the source delivers
    sent,       \* number of bytes of the stream already written to the decoder
    dec,        \* this.buffer / this.offset / this.status / this.needed
    readable,   \* batches pushed to the readable side and not yet taken
    yielded,    \* items the facade generator has yielded so far
    err,        \* "" or the message of the Error that was thrown
    block       \* the primitive block the entity specification decodes

vars == <<phase, osmopts, with, sid, sent, dec, readable, yielded, err, block>>

----------------------------------------------------------------------------
(* Bounds of the model.                                                    *)

\* longest chunk the byte source delivers, besides "everything that is left"
MaxChunk == 2
\* longest sequence of well-formed frames in a generated stream
MaxFrames == 2
\* most tags of a generated entity record
MaxTags == 2
\* longest delta-coded list of a generated record
MaxRefs == 2
\* a chunk length of about one frame, so that chunks end inside later frames
BigChunk == 23

----------------------------------------------------------------------------
(* Generic helpers.                                                        *)

Min(a, b) == IF a < b THEN a ELSE b

\* the element of a one-element set: Only({e(x) : x \in {v}}) is e(v) with v
\* evaluated once
Only(S) == CHOOSE x \in S : TRUE

\* Buffer.subarray(from, to): clipped to the buffer, 0-based, `to` exclusive
subarray(b, from, to) ==
    IF from >= Min(to, Len(b)) THEN <<>> ELSE SubSeq(b, from + 1, Min(to, Len(b)))

RECURSIVE Flatten(_)
Flatten(ss) == IF ss = <<>> THEN <<>> ELSE Head(ss) \o Flatten(Tail(ss))

\* a JS value that is either null/undefined (<<>>) or set (<<v>>)
Null == <<>>
Some(v) == <<v>>
IsSet(o) == o # <<>>

\* ASCII strings as byte sequences
OSMHeaderStr == <<79, 83, 77, 72, 101, 97, 100, 101, 114>>
OSMDataStr == <<79, 83, 77, 68, 97, 116, 97>>
UnknownStr == <<85, 110, 107, 110, 111, 119, 110>>

----------------------------------------------------------------------------
(* The wire reader (package pbf) as the generated readers use it.          *)

\* Pbf.readVarint at offset pos: [ok, val, pos]
RECURSIVE readVarint(_, _)
readVarint(buf, pos) ==
    IF pos >= Len(buf) THEN [ok |-> FALSE, val |-> 0, pos |-> pos]
    ELSE IF buf[pos + 1] < 128 THEN [ok |-> TRUE, val |-> buf[pos + 1], pos |-> pos + 1]
    ELSE Only({[ok |-> r.ok, val |-> (buf[pos + 1] - 128) + 128 * r.val, pos |-> r.pos] :
               r \in {readVarint(buf, pos + 1)}})

\* Pbf.readBytes / Pbf.readString at offset pos: [ok, val, pos]
readBytes(buf, pos) ==
    Only({[ok |-> n.ok, val |-> subarray(buf, n.pos, n.pos + n.val),
           pos |-> n.pos + n.val] : n \in {readVarint(buf, pos)}})

\* Pbf.skip(val) for the wire type of the tag byte val: [ok, pos]
RECURSIVE skipVarint(_, _)
skipVarint(buf, pos) ==
    IF pos >= Len(buf) THEN pos + 1
    ELSE IF buf[pos + 1] > 127 THEN skipVarint(buf, pos + 1) ELSE pos + 1

skip(buf, pos, val) ==
    LET type == val % 8 IN
    CASE type = 0 -> [ok |-> TRUE, pos |-> skipVarint(buf, pos)]
      [] type = 2 -> Only({[ok |-> n.ok, pos |-> n.pos + n.val] :
                           n \in {readVarint(buf, pos)}})
      [] type = 5 -> [ok |-> TRUE, pos |-> pos + 4]
      [] type = 1 -> [ok |-> TRUE, pos |-> pos + 8]
      [] OTHER -> [ok |-> FALSE, pos |-> pos]

WireError == "wire format error"

----------------------------------------------------------------------------
(* src/proto/fileformat.ts                                                 *)

BlobHeaderInit == [type |-> <<>>, indexdata |-> Null, datasize |-> 0, err |-> ""]

\* what reading one field leaves: the object, the reader's position, ok
Field(obj, pos, ok) == [obj |-> obj, pos |-> pos, ok |-> ok]

\* BlobHeader._readField(tag, obj, pbf), then pbf.skip(val) if nothing was read
BlobHeaderReadField(val, buf, pos, obj) ==
    LET tag == val \div 8 IN
    IF tag = 1 THEN
        Only({Field([obj EXCEPT !.type = r.val], r.pos, r.ok) : r \in {readBytes(buf, pos)}})
    ELSE IF tag = 2 THEN
        Only({Field([obj EXCEPT !.indexdata = Some(r.val)], r.pos, r.ok) :
              r \in {readBytes(buf, pos)}})
    ELSE IF tag = 3 THEN
        Only({Field([obj EXCEPT !.datasize = r.val], r.pos, r.ok) :
              r \in {readVarint(buf, pos)}})
    ELSE Only({Field(obj, k.pos, k.ok) : k \in {skip(buf, pos, val)}})

\* BlobHeader.read: pbf.readFields(BlobHeader._readField, {...}) over [pos, end)
RECURSIVE BlobHeaderRead(_, _, _, _)
BlobHeaderRead(buf, pos, end, obj) ==
    IF pos >= end THEN obj
    ELSE Only({IF ~t.ok THEN [obj EXCEPT !.err = WireError]
               ELSE Only({IF ~f.ok THEN [obj EXCEPT !.err = WireError]
                          ELSE BlobHeaderRead(buf, f.pos, end, f.obj) :
                          f \in {BlobHeaderReadField(t.val, buf, t.pos, obj)}}) :
               t \in {readVarint(buf, pos)}})

BlobInit ==
    [raw_size |-> 0, raw |-> Null, data |-> "null", zlib_data |-> Null,
     lzma_data |-> Null, OBSOLETE_bzip2_data |-> Null, lz4_data |-> Null,
     zstd_data |-> Null, err |-> ""]

\* Blob._readField for the payload tags 1, 3..7: the field is set and obj.data names it
BlobSetField(obj, tag, bytes) ==
    CASE tag = 1 -> [obj EXCEPT !.raw = Some(bytes), !.data = "raw"]
      [] tag = 3 -> [obj EXCEPT !.zlib_data = Some(bytes), !.data = "zlib_data"]
      [] tag = 4 -> [obj EXCEPT !.lzma_data = Some(bytes), !.data = "lzma_data"]
      [] tag = 5 -> [obj EXCEPT !.OBSOLETE_bzip2_data = Some(bytes),
                                !.data = "OBSOLETE_bzip2_data"]
      [] tag = 6 -> [obj EXCEPT !.lz4_data = Some(bytes), !.data = "lz4_data"]
      [] tag = 7 -> [obj EXCEPT !.zstd_data = Some(bytes), !.data = "zstd_data"]

\* Blob._readField(tag, obj, pbf), then pbf.skip(val) if nothing was read
BlobReadField(val, buf, pos, obj) ==
    LET tag == val \div 8 IN
    IF tag = 2 THEN
        Only({Field([obj EXCEPT !.raw_size = r.val], r.pos, r.ok) :
              r \in {readVarint(buf, pos)}})
    ELSE IF tag \in {1, 3, 4, 5, 6, 7} THEN
        Only({Field(BlobSetField(obj, tag, r.val), r.pos, r.ok) :
              r \in {readBytes(buf, pos)}})
    ELSE Only({Field(obj, k.pos, k.ok) : k \in {skip(buf, pos, val)}})

\* Blob.read: pbf.readFields(Blob._readField, {...}) over [pos, end)
RECURSIVE BlobRead(_, _, _, _)
BlobRead(buf, pos, end, obj) ==
    IF pos >= end THEN obj
    ELSE Only({IF ~t.ok THEN [obj EXCEPT !.err = WireError]
               ELSE Only({IF ~f.ok THEN [obj EXCEPT !.err = WireError]
                          ELSE BlobRead(buf, f.pos, end, f.obj) :
                          f \in {BlobReadField(t.val, buf, t.pos, obj)}}) :
               t \in {readVarint(buf, pos)}})

\* IBlobHeader / IBlob writers, used to build the byte streams
BlobHeaderWrite(type, datasize) ==
    (IF type # <<>> THEN <<10, Len(type)>> \o type ELSE <<>>)
    \o (IF datasize # 0 THEN <<24, datasize>> ELSE <<>>)

BlobWriteField(tag, bytes) == <<8 * tag + 2, Len(bytes)>> \o bytes

----------------------------------------------------------------------------
(* node:zlib.  A deflated payload is the zlib magic byte followed by the   *)
(* payload; inflateSync fails on anything else.                            *)

ZlibMagic == 120

deflateSync(bytes) == <<ZlibMagic>> \o bytes

inflateSync(z) ==
    IF z # <<>> /\ z[1] = ZlibMagic THEN [ok |-> TRUE, buf |-> Tail(z)]
    ELSE [ok |-> FALSE, buf |-> <<>>]

InflateError == "incorrect header check"

----------------------------------------------------------------------------
(* Tag option resolution: with_tags and the constructor's this.with.       *)

\* JS values an option can hold
JUndef == [t |-> "undefined"]
JNull == [t |-> "null"]
JBool(b) == [t |-> "boolean", b |-> b]
JNum == [t |-> "number"]
JStr == [t |-> "string"]
JArr(a) == [t |-> "array", a |-> a]
JObj(n, w, r) == [t |-> "object", node |-> n, way |-> w, relation |-> r]

\* a resolved per-kind filter: true, false, a Set of keys, or a missing property
FTrue == [t |-> "true", s |-> {}]
FFalse == [t |-> "false", s |-> {}]
FSet(s) == [t |-> "set", s |-> s]
FUndef == [t |-> "undefined", s |-> {}]

Range(a) == {a[i] : i \in DOMAIN a}

\* opt[k] ?? true for k in node / way / relation (an array has no such property)
OptKind(opt, k) ==
    LET v == IF opt.t = "object" THEN opt[k] ELSE JUndef
    IN  IF v.t \in {"undefined", "null"} THEN JBool(TRUE) ELSE v

\* lines 167-172: the per-kind value; ok = FALSE is result = null
ResolveKind(b) ==
    IF b.t = "boolean" THEN [ok |-> TRUE, f |-> IF b.b THEN FTrue ELSE FFalse]
    ELSE IF b.t = "array"
         THEN [ok |-> TRUE, f |-> IF Len(b.a) > 0 THEN FSet(Range(b.a)) ELSE FFalse]
         ELSE [ok |-> FALSE, f |-> FUndef]

WrongTags == "wrong withTags option."

with_tags(opt) ==
    IF opt.t = "boolean"
    THEN LET f == IF opt.b THEN FTrue ELSE FFalse
         IN  [ok |-> TRUE, node |-> f, way |-> f, relation |-> f]
    ELSE IF opt.t \in {"object", "array"}
    THEN LET n == ResolveKind(OptKind(opt, "node"))
             w == ResolveKind(OptKind(opt, "way"))
             r == ResolveKind(OptKind(opt, "relation"))
         IN  IF n.ok /\ w.ok /\ r.ok
             THEN [ok |-> TRUE, node |-> n.f, way |-> w.f, relation |-> r.f]
             ELSE [ok |-> FALSE, node |-> FUndef, way |-> FUndef, relation |-> FUndef]
    \* any other type leaves result = {} , which is truthy and is returned
    ELSE [ok |-> TRUE, node |-> FUndef, way |-> FUndef, relation |-> FUndef]

\* x ?? true
OrTrue(v) == IF v.t \in {"undefined", "null"} THEN JBool(TRUE) ELSE v

\* the constructor's this.with, [ok |-> FALSE] when with_tags throws
Constructor(o) ==
    LET wt == with_tags(OrTrue(o.withTags))
    IN  [ok |-> wt.ok,
         withTags |-> [node |-> wt.node, way |-> wt.way, relation |-> wt.relation],
         withInfo |-> o.withInfo,
         writeRaw |-> o.writeRaw]

\* a filter value is truthy when it is true or a Set
Truthy(f) == f.t \in {"true", "set"}

\* a filter that lets every key pass
PassesAll(f, key) == TRUE

\* !filter || filter.has(key), with filter = (f === true ? false : f)
Passes(f, key) == f.t = "true" \/ key \in f.s

----------------------------------------------------------------------------
(* Entity decoders of src/parser.ts.  A decoder returns                    *)
(* [st |-> "ok" | "error" | "hang", msg, v]: its value, the Error it       *)
(* throws, or "hang" when its loop never ends.                             *)

FormatError == "input format error"
ChangesetsError == "changesets not implemented"

Ok(v) == [st |-> "ok", msg |-> "", v |-> v]
Throw(m) == [st |-> "error", msg |-> m, v |-> <<>>]
Hang == [st |-> "hang", msg |-> "", v |-> <<>>]

memberTypes == <<"node", "way", "relation">>

\* a[i] of a JS array (0-based); undefined outside it
Undefined == "undefined"
At(a, i) == IF i >= 0 /\ i < Len(a) THEN a[i + 1] ELSE Undefined
\* a[i] of a numeric array used in arithmetic; undefined outside it (NaN is not modelled)
NumAt(a, i) == IF i >= 0 /\ i < Len(a) THEN a[i + 1] ELSE 0

\* assertArrays: all the arrays have the length of the first
assertArrays(arrays) == \A i \in DOMAIN arrays : Len(arrays[i]) = Len(arrays[1])

\* tags[key] = val on a JS object, modelled as a set of <<key, val>> pairs
TagsPut(tags, key, val) == {p \in tags : p[1] # key} \cup {<<key, val>>}

\* isEmpty(obj) for a tags object
isEmptyTags(tags) == tags = {}

\* the tag loop of parse_node / parse_way / parse_rel (lines 337-341)
RECURSIVE TagLoop(_, _, _, _, _, _)
TagLoop(strings, keys, vals, filter, i, tags) ==
    IF i >= Len(keys) THEN tags
    ELSE Only({TagLoop(strings, keys, vals, filter, i + 1,
                       IF Passes(filter, kv[1]) THEN TagsPut(tags, kv[1], kv[2]) ELSE tags) :
               kv \in {<<At(strings, keys[i + 1]), At(strings, NumAt(vals, i))>>}})

\* lines 333-343: [ok, tags] with tags Null when the entity gets no tags field
EntityTags(filter, rec, strings) ==
    IF ~Truthy(filter) THEN [ok |-> TRUE, tags |-> Null]
    ELSE IF ~assertArrays(<<rec.keys, rec.vals>>) THEN [ok |-> FALSE, tags |-> Null]
    ELSE Only({[ok |-> TRUE, tags |-> IF isEmptyTags(tags) THEN Null ELSE Some(tags)] :
               tags \in {TagLoop(strings, rec.keys, rec.vals, filter, 0, {})}})

\* the timestamp left in units of date_granularity
fill_infoUnscaled(data, info) ==
    [version |-> IF info.version # 0 THEN Some(info.version) ELSE Null,
     timestamp |-> IF info.timestamp # 0 THEN Some(info.timestamp) ELSE Null,
     changeset |-> IF info.changeset # 0 THEN Some(info.changeset) ELSE Null,
     uid |-> IF info.uid # 0 THEN Some(info.uid) ELSE Null,
     user |-> IF info.user_sid # 0
                 /\ At(data.strings, info.user_sid) \notin {Undefined, ""}
              THEN Some(At(data.strings, info.user_sid)) ELSE Null,
     visible |-> IF info.visible = "false" THEN Some(FALSE) ELSE Null]

\* fill_info: each field is Null (not set on ret) or Some(value)
fill_info(data, info) ==
    [version |-> IF info.version # 0 THEN Some(info.version) ELSE Null,
     timestamp |-> IF info.timestamp # 0
                   THEN Some(info.timestamp * data.date_granularity) ELSE Null,
     changeset |-> IF info.changeset # 0 THEN Some(info.changeset) ELSE Null,
     uid |-> IF info.uid # 0 THEN Some(info.uid) ELSE Null,
     user |-> IF info.user_sid # 0
                 /\ At(data.strings, info.user_sid) \notin {Undefined, ""}
              THEN Some(At(data.strings, info.user_sid)) ELSE Null,
     visible |-> IF info.visible = "false" THEN Some(FALSE) ELSE Null]

\* no info object taken for empty
isEmptyInfoNever(ret) == FALSE

\* isEmpty(obj) for an info object
isEmptyInfo(ret) ==
    /\ ret.version = Null /\ ret.timestamp = Null /\ ret.changeset = Null
    /\ ret.uid = Null /\ ret.user = Null /\ ret.visible = Null

\* lines 344-347: the info field of a plain node, way or relation
EntityInfo(data, rec) ==
    IF data.withInfo /\ IsSet(rec.info)
    THEN Only({IF isEmptyInfo(info) THEN Null ELSE Some(info) :
               info \in {fill_info(data, rec.info[1])}})
    ELSE Null

\* lat_offset + n.lat / granularity, kept exact in nanodegrees
Coord(offset, raw, nanoPerUnit) == offset + raw * nanoPerUnit

parse_node(n, data) ==
    Only({IF ~t.ok THEN Throw(FormatError)
          ELSE Ok([type |-> "node", id |-> n.id,
                   lat |-> Coord(data.lat_offset, n.lat, data.granularity),
                   lon |-> Coord(data.lon_offset, n.lon, data.granularity),
                   tags |-> t.tags, info |-> EntityInfo(data, n)]) :
          t \in {EntityTags(data.withTags.node, n, data.strings)}})

\* the deltas taken for the values
DeltaDecodeRaw(deltas, i, ref) == deltas

\* the running sums of a delta-coded array (lines 286-289)
RECURSIVE DeltaDecode(_, _, _)
DeltaDecode(deltas, i, ref) ==
    IF i >= Len(deltas) THEN <<>>
    ELSE Only({<<r>> \o DeltaDecode(deltas, i + 1, r) : r \in {ref + deltas[i + 1]}})

parse_way(w, data) ==
    Only({IF ~t.ok THEN Throw(FormatError)
          ELSE Ok([type |-> "way", id |-> w.id, refs |-> DeltaDecode(w.refs, 0, 0),
                   tags |-> t.tags, info |-> EntityInfo(data, w)]) :
          t \in {EntityTags(data.withTags.way, w, data.strings)}})

\* lines 233-241: the member list of a relation
RECURSIVE Members(_, _, _, _)
Members(r, strings, i, ref) ==
    IF i >= Len(r.memids) THEN <<>>
    ELSE Only({<<[type |-> At(memberTypes, r.types[i + 1]), ref |-> m,
                  role |-> At(strings, r.roles_sid[i + 1])]>>
               \o Members(r, strings, i + 1, m) : m \in {ref + r.memids[i + 1]}})

parse_rel(r, data) ==
    IF ~assertArrays(<<r.memids, r.types, r.roles_sid>>) THEN Throw(FormatError)
    ELSE Only({IF ~t.ok THEN Throw(FormatError)
               ELSE Ok([type |-> "relation", id |-> r.id,
                        members |-> Members(r, data.strings, 0, 0),
                        tags |-> t.tags, info |-> EntityInfo(data, r)]) :
               t \in {EntityTags(data.withTags.relation, r, data.strings)}})

\* one pair read for every node, whatever the sentinels
DenseTagLoopFixedStride(strings, kv, filter, j, tags) ==
    [hang |-> j + 2 >= Len(kv), j |-> j + 3,
     tags |-> IF Passes(filter, At(strings, NumAt(kv, j)))
              THEN TagsPut(tags, At(strings, NumAt(kv, j)), At(strings, NumAt(kv, j + 1)))
              ELSE tags]

\* lines 404-410: one node's tag segment of keys_vals, read from cursor j.
\* keys_vals[j] is undefined past the end, which is !== 0: the loop never ends.
RECURSIVE DenseTagLoop(_, _, _, _, _)
DenseTagLoop(strings, kv, filter, j, tags) ==
    IF j >= Len(kv) THEN [hang |-> TRUE, j |-> j, tags |-> tags]
    ELSE IF kv[j + 1] = 0 THEN [hang |-> FALSE, j |-> j + 1, tags |-> tags]
    ELSE Only({DenseTagLoop(strings, kv, filter, j + 2,
                            IF Passes(filter, p[1]) THEN TagsPut(tags, p[1], p[2])
                            ELSE tags) :
               p \in {<<At(strings, kv[j + 1]), At(strings, NumAt(kv, j + 1))>>}})

\* the cursor j of parse_dense after the tag loops of the first i nodes
RECURSIVE CursorAfter(_, _, _, _)
CursorAfter(strings, kv, filter, i) ==
    IF i = 0 THEN 0
    ELSE DenseTagLoop(strings, kv, filter, CursorAfter(strings, kv, filter, i - 1), {}).j

\* the running sums parse_dense starts from (lines 370-376, 381)
DenseStart ==
    [id |-> 0, lat |-> 0, lon |-> 0, timestamp |-> 0, changeset |-> 0,
     uid |-> 0, user_sid |-> 0, j |-> 0]

\* the visible array required to be parallel to id as well
DenseInfoArraysWithVisible(dense, dinfo) ==
    <<dense.id, dinfo.timestamp, dinfo.changeset, dinfo.uid, dinfo.user_sid,
      dinfo.version, dinfo.visible>>

\* lines 414-421: the arrays of a dense info that must be parallel to id
DenseInfoArrays(dense, dinfo) ==
    <<dense.id, dinfo.timestamp, dinfo.changeset, dinfo.uid, dinfo.user_sid,
      dinfo.version>>

\* lines 383-385 and 422-425: the running sums after node i
DenseSums(dense, informed, i, a, j) ==
    LET dinfo == dense.denseinfo[1] IN
    [id |-> a.id + dense.id[i + 1],
     lat |-> a.lat + dense.lat[i + 1],
     lon |-> a.lon + dense.lon[i + 1],
     timestamp |-> IF informed THEN a.timestamp + dinfo.timestamp[i + 1] ELSE a.timestamp,
     changeset |-> IF informed THEN a.changeset + dinfo.changeset[i + 1] ELSE a.changeset,
     uid |-> IF informed THEN a.uid + dinfo.uid[i + 1] ELSE a.uid,
     user_sid |-> IF informed THEN a.user_sid + dinfo.user_sid[i + 1] ELSE a.user_sid,
     j |-> j]

\* lines 427-435: the info field of dense node i, from the running sums b
DenseInfo(dense, data, i, b) ==
    Only({IF isEmptyInfo(info) THEN Null ELSE Some(info) :
          info \in {fill_info(data, [version |-> dense.denseinfo[1].version[i + 1],
                                     timestamp |-> b.timestamp,
                                     changeset |-> b.changeset,
                                     uid |-> b.uid, user_sid |-> b.user_sid,
                                     visible |-> At(dense.denseinfo[1].visible, i)])}})

\* lines 386-400, 411: dense node i
DenseNode(dense, data, i, b, tagged, tags, informed) ==
    [type |-> "node", id |-> b.id,
     lat |-> Coord(data.lat_offset, b.lat, data.granularity),
     lon |-> Coord(data.lon_offset, b.lon, data.granularity),
     tags |-> IF tagged /\ ~isEmptyTags(tags) THEN Some(tags) ELSE Null,
     info |-> IF informed THEN DenseInfo(dense, data, i, b) ELSE Null]

\* the body of the loop of parse_dense for node i, and the nodes after it
RECURSIVE DenseLoop(_, _, _, _)
DenseLoop(dense, data, i, a) ==
    IF i >= Len(dense.id) THEN Ok(<<>>)
    ELSE
    LET filter == data.withTags.node
        tagged == Truthy(filter) /\ Len(dense.keys_vals) > 0
        informed == data.withInfo /\ IsSet(dense.denseinfo)
    IN  Only({
          IF seg.hang THEN Hang
          ELSE IF informed /\ ~assertArrays(DenseInfoArrays(dense, dense.denseinfo[1]))
          THEN Throw(FormatError)
          ELSE Only({
                 Only({IF rest.st # "ok" THEN rest
                       ELSE Ok(<<DenseNode(dense, data, i, b, tagged, seg.tags, informed)>>
                               \o rest.v) :
                       rest \in {DenseLoop(dense, data, i + 1, b)}}) :
                 b \in {DenseSums(dense, informed, i, a, seg.j)}}) :
          seg \in {IF tagged
                   THEN DenseTagLoop(data.strings, dense.keys_vals, filter, a.j, {})
                   ELSE [hang |-> FALSE, j |-> a.j, tags |-> {}]}})

parse_dense(dense, data) ==
    IF ~assertArrays(<<dense.id, dense.lat, dense.lon>>) THEN Throw(FormatError)
    ELSE DenseLoop(dense, data, 0, DenseStart)

\* for (const x of list) batch.push(decode(x, data)), up to the first throw
RECURSIVE DecodeList(_, _, _, _)
DecodeList(kind, list, data, i) ==
    IF i >= Len(list) THEN Ok(<<>>)
    ELSE Only({IF one.st # "ok" THEN one
               ELSE Only({IF rest.st # "ok" THEN rest ELSE Ok(<<one.v>> \o rest.v) :
                          rest \in {DecodeList(kind, list, data, i + 1)}}) :
               one \in {CASE kind = "nodes" -> parse_node(list[i + 1], data)
                          [] kind = "ways" -> parse_way(list[i + 1], data)
                          [] kind = "relations" -> parse_rel(list[i + 1], data)}})

\* lines 205-214: the order in which the lists of one primitive group are decoded
\* the ways decoded before the dense nodes
GroupOrderWaysFirst == <<"nodes", "ways", "dense", "relations">>

GroupOrder == <<"nodes", "dense", "ways", "relations">>

\* one list of a group
DecodeKind(kind, p, data) ==
    IF kind = "dense"
    THEN IF IsSet(p.dense) THEN parse_dense(p.dense[1], data) ELSE Ok(<<>>)
    ELSE DecodeList(kind, p[kind], data, 0)

RECURSIVE DecodeKinds(_, _, _, _)
DecodeKinds(order, p, data, k) ==
    IF k > Len(order) THEN Ok(<<>>)
    ELSE Only({IF one.st # "ok" THEN one
               ELSE Only({IF rest.st # "ok" THEN rest ELSE Ok(one.v \o rest.v) :
                          rest \in {DecodeKinds(order, p, data, k + 1)}}) :
               one \in {DecodeKind(order[k], p, data)}})

\* line 203: a group with changesets is refused
\* the changesets of a group ignored
HasChangesetsIgnored(p) == FALSE

HasChangesets(p) == Len(p.changesets) > 0

\* lines 202-215: the loop over the primitive groups, from group g on
RECURSIVE GroupLoop(_, _)
GroupLoop(data, g) ==
    IF g > Len(data.primitivegroup) THEN Ok(<<>>)
    ELSE IF HasChangesets(data.primitivegroup[g]) THEN Throw(ChangesetsError)
    ELSE Only({IF one.st # "ok" THEN one
               ELSE Only({IF rest.st # "ok" THEN rest ELSE Ok(one.v \o rest.v) :
                          rest \in {GroupLoop(data, g + 1)}}) :
               one \in {DecodeKinds(GroupOrder, data.primitivegroup[g], data, 1)}})

DefaultDateGranularity == 1000
DefaultGranularity == 100

\* lines 193-200: the block's scale parameters; coordinates are kept in nanodegrees,
\* so the divisor 1e7 (resp. 1e9 / granularity) is 100 (resp. granularity) nanodegrees
Prepare(block0, withTags, withInfo) ==
    [strings |-> block0.stringtable,
     date_granularity |-> IF block0.date_granularity = 0 THEN DefaultDateGranularity
                          ELSE block0.date_granularity,
     granularity |-> IF block0.granularity = 0 \/ block0.granularity = 100
                     THEN DefaultGranularity ELSE block0.granularity,
     lat_offset |-> block0.lat_offset,
     lon_offset |-> block0.lon_offset,
     primitivegroup |-> block0.primitivegroup,
     withTags |-> withTags,
     withInfo |-> withInfo]

\* parse(buf, that) once PrimitiveBlock.read has returned block0; `that` is
\* [transform |-> TRUE, with |-> this.with] for the streaming engine (line 186) and
\* [transform |-> FALSE, opts |-> the options object] for an ad hoc call (line 189)
parseBlock(block0, that) ==
    IF that.transform
    THEN Only({GroupLoop(data, 1) :
               data \in {Prepare(block0, that.with.withTags, that.with.withInfo)}})
    ELSE Only({IF ~wt.ok THEN Throw(WrongTags)
               ELSE Only({GroupLoop(data, 1) :
                          data \in {Prepare(block0,
                                            [node |-> wt.node, way |-> wt.way,
                                             relation |-> wt.relation],
                                            that.opts.withInfo)}}) :
               wt \in {with_tags(that.opts)}})

----------------------------------------------------------------------------
(* ./proto/osmformat: HeaderBlock.read and PrimitiveBlock.read.  The       *)
(* payload of a data block is one byte naming a block of the catalogue     *)
(* Blocks; the FileHeaderBlock is opaque.                                  *)

StringTable == <<"", "highway", "name", "residential", "Main", "alice">>

WNode(id, keys, vals) ==
    [id |-> id, lat |-> id, lon |-> -id, keys |-> keys, vals |-> vals, info |-> Null]
WWay(id, refs, keys, vals) ==
    [id |-> id, refs |-> refs, keys |-> keys, vals |-> vals, info |-> Null]
WRel(id, memids, types, roles_sid, keys, vals) ==
    [id |-> id, memids |-> memids, types |-> types, roles_sid |-> roles_sid,
     keys |-> keys, vals |-> vals, info |-> Null]
WDense(id, lat, lon, keys_vals, denseinfo) ==
    [id |-> id, lat |-> lat, lon |-> lon, keys_vals |-> keys_vals,
     denseinfo |-> denseinfo]
WGroup(nodes, dense, ways, relations, changesets) ==
    [nodes |-> nodes, dense |-> dense, ways |-> ways, relations |-> relations,
     changesets |-> changesets]
WBlock(groups) ==
    [stringtable |-> StringTable, granularity |-> 100, lat_offset |-> 0,
     lon_offset |-> 0, date_granularity |-> 1000, primitivegroup |-> groups]

\* two groups holding every kind of entity
BlockMixed ==
    WBlock(<<WGroup(<<WNode(1, <<1>>, <<3>>)>>,
                    Some(WDense(<<2, 1>>, <<5, 1>>, <<7, 1>>, <<1, 3, 0, 0>>, Null)),
                    <<WWay(4, <<1, 1>>, <<2>>, <<4>>)>>,
                    <<WRel(5, <<2, 2>>, <<0, 1>>, <<0, 5>>, <<>>, <<>>)>>,
                    <<>>),
             WGroup(<<WNode(6, <<>>, <<>>)>>, Null,
                    <<WWay(7, <<6>>, <<>>, <<>>)>>, <<>>, <<>>)>>)

\* a dense group followed by a relation
BlockDense ==
    WBlock(<<WGroup(<<>>,
                    Some(WDense(<<10, 1>>, <<0, 0>>, <<0, 0>>, <<>>, Null)),
                    <<>>,
                    <<WRel(12, <<10>>, <<0>>, <<0>>, <<2>>, <<4>>)>>,
                    <<>>)>>)

\* a group of nodes, then a group that holds changesets
BlockChangesets ==
    WBlock(<<WGroup(<<WNode(20, <<>>, <<>>)>>, Null, <<>>, <<>>, <<>>),
             WGroup(<<WNode(21, <<>>, <<>>)>>, Null, <<>>, <<>>, <<1>>)>>)

\* two dense nodes and a keys_vals of one sentinel
BlockUnterminated ==
    WBlock(<<WGroup(<<>>, Some(WDense(<<40, 1>>, <<0, 0>>, <<0, 0>>, <<1, 3, 0>>, Null)),
                    <<>>, <<>>, <<>>)>>)

Blocks == <<BlockMixed, BlockDense, BlockChangesets, BlockUnterminated>>

PrimitiveBlockRead(buf) ==
    IF Len(buf) = 1 /\ buf[1] \in DOMAIN Blocks
    THEN [ok |-> TRUE, block |-> Blocks[buf[1]]]
    ELSE [ok |-> FALSE, block |-> <<>>]

HeaderBlockRead(buf) == [header |-> buf]

\* parse(buf, that), lines 184-217
parse(buf, that) ==
    Only({IF ~data.ok THEN Throw(WireError) ELSE parseBlock(data.block, that) :
          data \in {PrimitiveBlockRead(buf)}})

----------------------------------------------------------------------------
(* OSMTransform: the framing state machine.                                *)

SequenceError == "input sequence error"
NotImplemented(field) == "inflating " \o field \o " not implemented"

\* the constructor's initial fields (lines 70-74)
NewDecoder == [buffer |-> Null, offset |-> 0, status |-> 0, needed |-> 4]

\* function advance(step), lines 145-148
advance(pbf, step) == [pos |-> pbf.length, length |-> pbf.length + step]

\* Buffer.readUInt32BE(offset)
readUInt32BE(buf, o) ==
    ((buf[o + 1] * 256 + buf[o + 2]) * 256 + buf[o + 3]) * 256 + buf[o + 4]

\* a refill that keeps the consumed prefix in the buffer
RefillKeep(d, chunk) ==
    IF ~IsSet(d.buffer) THEN [d EXCEPT !.buffer = Some(chunk)]
    ELSE [d EXCEPT !.buffer = Some(d.buffer[1] \o chunk), !.offset = 0]

\* lines 81-85: the buffer and offset once the chunk has been taken in
Refill(d, chunk) ==
    IF ~IsSet(d.buffer) THEN [d EXCEPT !.buffer = Some(chunk)]
    ELSE [d EXCEPT !.buffer = Some(subarray(d.buffer[1], d.offset, Len(d.buffer[1]))
                                   \o chunk),
                   !.offset = 0]

\* lines 86-88: the reader over the new buffer
NewPbf(d) == [pos |-> 0, length |-> IF d.status = 0 THEN 0 ELSE d.needed]

\* a wait test that also waits when exactly the needed bytes are buffered
MustWaitStrict(d) == d.needed # 0 /\ Len(d.buffer[1]) - d.offset <= d.needed

\* lines 92-96: fewer bytes than needed are buffered
MustWait(d) == d.needed # 0 /\ Len(d.buffer[1]) - d.offset < d.needed

\* lines 110-113: the BlobHeader types the decoder accepts
\* the assertion on header.type left out
TypeOkAny(header) == TRUE

TypeOk(header) == header.type = OSMHeaderStr \/ header.type = OSMDataStr

\* line 121: the payload of an OSMHeader blob, [st, buf]
HeaderPayload(blob) ==
    IF IsSet(blob.zlib_data)
    THEN LET z == inflateSync(blob.zlib_data[1])
         IN  IF z.ok THEN [st |-> "ok", buf |-> z.buf] ELSE [st |-> "zlib", buf |-> <<>>]
    ELSE IF IsSet(blob.raw) THEN [st |-> "ok", buf |-> blob.raw[1]]
    ELSE [st |-> "none", buf |-> <<>>]

\* lines 131-135: the payload of an OSMData blob, [st, buf]
DataPayload(blob) ==
    IF IsSet(blob.zlib_data)
    THEN LET z == inflateSync(blob.zlib_data[1])
         IN  IF z.ok THEN [st |-> "ok", buf |-> z.buf] ELSE [st |-> "zlib", buf |-> <<>>]
    ELSE [st |-> "none", buf |-> <<>>]

\* a pushed Buffer, as the items the facade's for..of yields from it
RawItems(bytes) == [i \in DOMAIN bytes |-> [byte |-> bytes[i]]]

\* what one pass of the while loop leaves: "go" to loop again, or the throw / hang
Pass(d, pbf, out, st, msg) == [dec |-> d, pbf |-> pbf, out |-> out, st |-> st, msg |-> msg]

\* lines 99-106: status 0, the int32 with the header length
AwaitingLength(d, pbf, out) ==
    Only({Pass([d EXCEPT !.offset = d.offset + d.needed, !.needed = l, !.status = 1],
               advance(advance(pbf, 4), l), out, "go", "") :
          l \in {readUInt32BE(d.buffer[1], d.offset)}})

\* lines 107-117: status 1, the BlobHeader
AwaitingHeader(d, pbf, out) ==
    Only({IF header.err # "" THEN Pass(d, pbf, out, "error", header.err)
          ELSE IF ~TypeOk(header) THEN Pass(d, pbf, out, "error", SequenceError)
          ELSE Pass([d EXCEPT !.offset = d.offset + d.needed,
                              !.needed = header.datasize,
                              !.status = IF header.type = OSMHeaderStr THEN 2 ELSE 3],
                    advance(pbf, header.datasize), out, "go", "") :
          header \in {BlobHeaderRead(d.buffer[1], pbf.pos, pbf.length, BlobHeaderInit)}})

\* the end of a frame without the advance of the offset
NextFrameStay(d) == [d EXCEPT !.needed = 4, !.status = 0]

\* lines 125-127 and 139-141: the blob is consumed, the next header length follows
NextFrame(d) == [d EXCEPT !.offset = d.offset + d.needed, !.needed = 4, !.status = 0]

\* status 2 without the push of the header
AwaitingFileHeaderBlobSilent(d, pbf, out) == Pass(NextFrame(d), pbf, out, "go", "")

\* lines 118-127: status 2, the OSMHeader blob
AwaitingFileHeaderBlob(d, pbf, out) ==
    Only({IF blob.err # "" THEN Pass(d, pbf, out, "error", blob.err)
          ELSE Only({IF p.st = "zlib" THEN Pass(d, pbf, out, "error", InflateError)
                     ELSE IF p.st = "none"
                     THEN Pass(d, pbf, out, "error", NotImplemented(blob.data))
                     ELSE Pass(NextFrame(d), pbf,
                               Append(out, <<HeaderBlockRead(p.buf)>>), "go", "") :
                     p \in {HeaderPayload(blob)}}) :
          blob \in {BlobRead(d.buffer[1], pbf.pos, pbf.length, BlobInit)}})

\* lines 137: this.push(parse(buf, this))
PushParsed(d, pbf, out, w, buf) ==
    Only({IF batch.st = "error" THEN Pass(d, pbf, out, "error", batch.msg)
          ELSE IF batch.st = "hang" THEN Pass(d, pbf, out, "hang", "")
          ELSE Pass(NextFrame(d), pbf, Append(out, batch.v), "go", "") :
          batch \in {parse(buf, [transform |-> TRUE, with |-> w])}})

\* lines 128-142: status 3, the OSMData blob
AwaitingDataBlob(d, pbf, out, w) ==
    Only({IF blob.err # "" THEN Pass(d, pbf, out, "error", blob.err)
          ELSE Only({IF p.st = "none"
                     THEN Pass(d, pbf, out, "error", NotImplemented(blob.data))
                     ELSE IF w.writeRaw
                     THEN Pass(NextFrame(d), pbf,
                               Append(out, RawItems(blob.zlib_data[1])), "go", "")
                     ELSE IF p.st = "zlib" THEN Pass(d, pbf, out, "error", InflateError)
                     ELSE PushParsed(d, pbf, out, w, p.buf) :
                     p \in {DataPayload(blob)}}) :
          blob \in {BlobRead(d.buffer[1], pbf.pos, pbf.length, BlobInit)}})

\* one pass of the while loop once enough bytes are buffered
Step(d, pbf, out, w) ==
    CASE d.status = 0 -> AwaitingLength(d, pbf, out)
      [] d.status = 1 -> AwaitingHeader(d, pbf, out)
      [] d.status = 2 -> AwaitingFileHeaderBlob(d, pbf, out)
      [] d.status = 3 -> AwaitingDataBlob(d, pbf, out, w)

\* what a call of _transform leaves: st = "next" when it returned next()
Result(d, out, st, msg) == [dec |-> d, out |-> out, st |-> st, msg |-> msg]

\* lines 91-143: the while loop; out collects the batches pushed by this call
RECURSIVE Loop(_, _, _, _)
Loop(d, pbf, out, w) ==
    IF MustWait(d) THEN Result(d, out, "next", "")
    ELSE Only({IF s.st = "go" THEN Loop(s.dec, s.pbf, s.out, w)
               ELSE Result(s.dec, s.out, s.st, s.msg) :
               s \in {Step(d, pbf, out, w)}})

\* _transform(chunk, encoding, next)
transform(d, chunk, w) ==
    Only({Loop(d1, NewPbf(d1), <<>>, w) : d1 \in {Refill(d, chunk)}})

\* _flush without the test of status
FlushOkAnyStatus(d) == IsSet(d.buffer) /\ Len(d.buffer[1]) = d.offset

\* line 156: the condition _flush asserts
FlushOk(d) == IsSet(d.buffer) /\ Len(d.buffer[1]) = d.offset /\ d.status = 0

----------------------------------------------------------------------------
(* The byte streams the source delivers: frames                            *)
(* [4-byte big-endian length][BlobHeader][Blob].                           *)

U32BE(n) == <<(n \div 16777216) % 256, (n \div 65536) % 256, (n \div 256) % 256, n % 256>>

RECURSIVE BlobWrite(_)
BlobWrite(fields) ==
    IF fields = <<>> THEN <<>>
    ELSE BlobWriteField(Head(fields)[1], Head(fields)[2]) \o BlobWrite(Tail(fields))

\* a frame is [type |-> the BlobHeader type, fields |-> <<tag, bytes>> of the Blob]
FrameBytes(f) ==
    LET blob == BlobWrite(f.fields)
        hdr == BlobHeaderWrite(f.type, Len(blob))
    IN  U32BE(Len(hdr)) \o hdr \o blob

HeaderPayloadBytes == <<7>>

Hz == [type |-> OSMHeaderStr, fields |-> <<<<3, deflateSync(HeaderPayloadBytes)>>>>]
Hr == [type |-> OSMHeaderStr, fields |-> <<<<1, HeaderPayloadBytes>>>>]
Dz(k) == [type |-> OSMDataStr, fields |-> <<<<3, deflateSync(<<k>>)>>>>]
Dr(k) == [type |-> OSMDataStr, fields |-> <<<<1, <<k>>>>>>]
\* a frame whose Blob holds, in this order, the payload fields of the given tags
Fr(type, tags, k) ==
    [type |-> type,
     fields |-> [i \in DOMAIN tags |->
                   <<tags[i], IF tags[i] = 3 THEN deflateSync(<<k>>) ELSE <<k>>>>]]

\* a frame of header length 0, and frames whose BlobHeader has no datasize
ZeroLength == [type |-> <<>>, fields |-> <<>>]
EmptyData == [type |-> OSMDataStr, fields |-> <<>>]
EmptyHeader == [type |-> OSMHeaderStr, fields |-> <<>>]

UnsupportedTags == {4, 5, 6, 7}
FieldName(tag) ==
    CASE tag = 1 -> "raw" [] tag = 3 -> "zlib_data" [] tag = 4 -> "lzma_data"
      [] tag = 5 -> "OBSOLETE_bzip2_data" [] tag = 6 -> "lz4_data"
      [] tag = 7 -> "zstd_data"

GoodFrames == {Hz, Dz(1), Dz(2)}

RECURSIVE SeqsUpTo(_, _)
SeqsUpTo(S, n) ==
    IF n = 0 THEN {<<>>}
    ELSE LET shorter == SeqsUpTo(S, n - 1)
         IN  shorter \cup {Append(q, x) : q \in {t \in shorter : Len(t) = n - 1}, x \in S}

GoodStreams == SeqsUpTo(GoodFrames, MaxFrames)

SpecialStreams ==
    {<<Hr>>, <<Hr, Dz(1)>>, <<Hz, Dr(1)>>, <<Dr(2)>>,
     <<Hz, Dz(1), Dz(3)>>, <<Hz, Dz(3), Dz(1)>>,
     <<Hz, Fr(UnknownStr, <<3>>, 1)>>, <<Fr(UnknownStr, <<1>>, 1), Hz>>,
     <<Fr(<<>>, <<3>>, 1)>>}
    \cup {<<Hz, Fr(OSMDataStr, <<t>>, 1)>> : t \in UnsupportedTags}
    \cup {<<Fr(OSMHeaderStr, <<t>>, 7), Dz(1)>> : t \in UnsupportedTags}
    \cup {<<Hz, Fr(OSMDataStr, <<3, t>>, 1)>> : t \in {4, 7}}
    \cup {<<Hz, Fr(OSMDataStr, <<t, 3>>, 1)>> : t \in {4}}
    \cup {<<Hz, Fr(OSMDataStr, <<t, 1>>, 1)>> : t \in {5}}
    \cup {<<Fr(OSMHeaderStr, <<1, t>>, 7), Dz(2)>> : t \in {6}}
    \cup {<<ZeroLength>>, <<Hz, ZeroLength>>, <<EmptyHeader, Dz(1)>>, <<Hz, EmptyData>>,
          <<Hz, EmptyData, Dz(1)>>, <<Hz, Dz(4)>>, <<Hz, Dz(1), Dz(4)>>}

Streams == GoodStreams \cup SpecialStreams

Input(s) == Flatten([i \in DOMAIN s |-> FrameBytes(s[i])])

\* the options the streaming runs are constructed with
DefaultOpts == [withTags |-> JBool(TRUE), withInfo |-> FALSE, writeRaw |-> FALSE]
RawOpts == [withTags |-> JBool(TRUE), withInfo |-> FALSE, writeRaw |-> TRUE]
FilterOpts ==
    [withTags |-> JObj(JArr(<<"highway">>), JBool(FALSE), JUndef),
     withInfo |-> FALSE, writeRaw |-> FALSE]

----------------------------------------------------------------------------
(* The streaming specification: a byte source writes the stream in chunks, *)
(* signals end-of-input, and the facade takes the pushed batches.          *)

Init ==
    /\ sid \in Streams
    /\ osmopts \in {DefaultOpts, RawOpts, FilterOpts}
    /\ osmopts # DefaultOpts => sid \in {<<Hz, Dz(1)>>, <<Hz, Dr(1)>>}
    /\ with = Constructor(osmopts)
    /\ phase = "open"
    /\ sent = 0
    /\ dec = NewDecoder
    /\ readable = <<>>
    /\ yielded = <<>>
    /\ err = ""
    /\ block = <<>>

\* the chunk lengths the source may deliver when `left` bytes are left
ChunkSizes(left) == {n \in (0 .. MaxChunk) \cup {BigChunk, left} : n <= left}

\* lines 56-63: the readable side holds objects with a high-water mark of 1 and
\* the writable side has a high-water mark of 0, so the stream takes the next
\* chunk, or the end of input, only once every batch pushed so far is taken
Accepting == readable = <<>>

\* the source writes the next n bytes: _transform runs on them
Write(n) ==
    /\ phase = "open"
    /\ Accepting
    /\ \E r \in {transform(dec, SubSeq(Input(sid), sent + 1, sent + n), with)} :
           /\ dec' = r.dec
           /\ readable' = readable \o r.out
           /\ phase' = CASE r.st = "next" -> "open"
                         [] r.st = "error" -> "failed"
                         [] r.st = "hang" -> "hung"
           /\ err' = r.msg
    /\ sent' = sent + n
    /\ UNCHANGED <<osmopts, with, sid, yielded, block>>

\* the source ends, after any number of bytes: _flush runs
End ==
    /\ phase = "open"
    /\ Accepting
    /\ IF FlushOk(dec)
       THEN phase' = "ended" /\ err' = err
       ELSE phase' = "failed" /\ err' = FormatError
    /\ UNCHANGED <<osmopts, with, sid, sent, dec, readable, yielded, block>>

\* createOSMStream: the generator takes the next batch and yields its items
Pull ==
    /\ phase \in {"open", "ended"}
    /\ readable # <<>>
    /\ yielded' = yielded \o Head(readable)
    /\ readable' = Tail(readable)
    /\ UNCHANGED <<phase, osmopts, with, sid, sent, dec, err, block>>

Next ==
    \/ \E n \in ChunkSizes(Len(Input(sid)) - sent) : Write(n)
    \/ End
    \/ Pull

Spec == Init /\ [][Next]_vars

----------------------------------------------------------------------------
(* Where the frames of the stream lie, and what the wire holds.            *)

RECURSIVE FrameStart(_, _)
\* offset in the stream of the first byte of frame j
FrameStart(s, j) == IF j = 1 THEN 0 ELSE FrameStart(s, j - 1) + Len(FrameBytes(s[j - 1]))
\* offset just past the BlobHeader of frame j, and just past its Blob
HeaderEnd(s, j) == FrameStart(s, j) + 4 + Len(BlobHeaderWrite(s[j].type, Len(BlobWrite(s[j].fields))))
FrameEnd(s, j) == FrameStart(s, j) + Len(FrameBytes(s[j]))

\* the bytes delivered so far, and the number of frames wholly among them
Delivered == SubSeq(Input(sid), 1, sent)
FramesDelivered == Cardinality({j \in DOMAIN sid : FrameEnd(sid, j) <= sent})

\* every item pushed so far, taken by the facade or not
Emitted == yielded \o Flatten(readable)

IsHeader(x) == "header" \in DOMAIN x
IsEntity(x) == "type" \in DOMAIN x /\ x.type \in {"node", "way", "relation"}

\* frames the decoder accepts: a zlib or raw OSMHeader, a zlib OSMData of a block
\* without changesets
WellFormed(f) == f \in {Hz, Hr, Dz(1), Dz(2)}
GoodPrefix(s, j) == \A i \in 1 .. (j - 1) : WellFormed(s[i])

\* the identities <<kind, id>> of the entities of a block in wire order: group by
\* group, and in a group the plain nodes, the dense nodes, the ways, the relations
RECURSIVE PrefixSums(_, _)
PrefixSums(deltas, acc) ==
    IF deltas = <<>> THEN <<>>
    ELSE <<acc + Head(deltas)>> \o PrefixSums(Tail(deltas), acc + Head(deltas))

GroupKeys(p) ==
    [i \in DOMAIN p.nodes |-> <<"node", p.nodes[i].id>>]
    \o (IF IsSet(p.dense)
        THEN LET ids == PrefixSums(p.dense[1].id, 0)
             IN  [i \in DOMAIN ids |-> <<"node", ids[i]>>]
        ELSE <<>>)
    \o [i \in DOMAIN p.ways |-> <<"way", p.ways[i].id>>]
    \o [i \in DOMAIN p.relations |-> <<"relation", p.relations[i].id>>]

BlockKeys(b) == Flatten([g \in DOMAIN b.primitivegroup |-> GroupKeys(b.primitivegroup[g])])

\* what the frame puts on the wire: a header, or the entities of its block
FrameKeys(f) ==
    IF f.type = OSMHeaderStr THEN <<<<"header", 0>>>>
    ELSE IF f.type = OSMDataStr /\ f.fields # <<>>
    THEN BlockKeys(Blocks[f.fields[1][2][Len(f.fields[1][2])]])
    ELSE <<>>

WireKeys(s) == Flatten([j \in DOMAIN s |-> FrameKeys(s[j])])

ItemKey(x) == IF IsHeader(x) THEN <<"header", 0>> ELSE <<x.type, x.id>>
Keys(items) == [i \in DOMAIN items |-> ItemKey(items[i])]

IsPrefix(a, b) == Len(a) <= Len(b) /\ a = SubSeq(b, 1, Len(a))

\* the facade has taken everything of a decode that ended without error
Drained == phase = "ended" /\ readable = <<>>
Decoding == ~with.writeRaw

----------------------------------------------------------------------------
(* Properties of the streaming specification.                              *)

Terminal == phase \in {"ended", "failed", "hung"}
Outcome == CASE phase = "ended" -> "end" [] phase = "failed" -> "error"
             [] phase = "hung" -> "hang" [] OTHER -> "open"

\* a fresh decoder fed the bytes as one chunk and then ended
WholeRun(bytes, w) ==
    Only({[items |-> Flatten(r.out),
           outcome |-> IF r.st = "next"
                       THEN (IF FlushOk(r.dec) THEN "end" ELSE "error")
                       ELSE r.st,
           msg |-> IF r.st = "next" /\ ~FlushOk(r.dec) THEN FormatError ELSE r.msg] :
          r \in {transform(NewDecoder, bytes, w)}})

ThisRun == [items |-> Emitted, outcome |-> Outcome, msg |-> err]

\* C1: however the delivered bytes were cut into chunks, a decode that has
\* stopped produced the items and the outcome of the decode of the same bytes
\* delivered as one chunk.
C1_ChunkIndependence == Terminal => ThisRun = WholeRun(Delivered, with)

\* the same, for decodes that were fed at least one chunk (empty or not)
ChunkIndependentOnceFed == (Terminal /\ IsSet(dec.buffer)) => ThisRun = WholeRun(Delivered, with)

\* the input of C1: end-of-input with no chunk at all fails, one empty chunk ends
EndsWithoutChunk == phase = "failed" /\ sent = 0 /\ ~IsSet(dec.buffer)

\* the step of End: the source signals end-of-input
EndOfInput ==
    /\ phase = "open" /\ phase' # "open"
    /\ sent' = sent /\ dec' = dec /\ readable' = readable /\ yielded' = yielded

Unconsumed == IsSet(dec.buffer) /\ Len(dec.buffer[1]) # dec.offset
MidFrame == \E j \in DOMAIN sid : FrameStart(sid, j) < sent /\ sent < FrameEnd(sid, j)

\* C2: when end-of-input arrives while the status is not 0, or bytes of the
\* buffer are unconsumed, or the stream stops inside a frame, the decode fails
\* with the format error and does not end normally.
C2_TruncationDetected ==
    [][(EndOfInput /\ (dec.status # 0 \/ Unconsumed \/ MidFrame))
         => (phase' = "failed" /\ err' = FormatError)]_vars

C2_Witness ==
    /\ phase = "failed" /\ err = FormatError
    /\ dec.status = 3 /\ MidFrame /\ Len(Emitted) > 0

\* C3: the items emitted are at all times a prefix of the entities of the
\* stream in wire order (frame by frame, group by group, nodes, dense nodes,
\* ways, relations), and a drained decode yielded exactly those of the frames
\* delivered: nothing reordered, duplicated or lost.
C3_WireOrder ==
    Decoding =>
        /\ IsPrefix(Keys(Emitted), WireKeys(sid))
        /\ Drained => Keys(yielded) = WireKeys(SubSeq(sid, 1, FramesDelivered))

C3_Witness ==
    /\ Decoding /\ Drained /\ sid = <<Dz(2), Dz(1)>>
    /\ Len(yielded) = Len(BlockKeys(BlockDense)) + Len(BlockKeys(BlockMixed))

\* C4 as stated: a drained decode yielded a FileHeaderBlock exactly once, as
\* its first element, and entities after it.
C4_HeaderOnceAndFirst ==
    (Decoding /\ Drained) =>
        /\ yielded # <<>>
        /\ IsHeader(yielded[1])
        /\ \A i \in 2 .. Len(yielded) : IsEntity(yielded[i])

\* C4 amended: a drained decode yielded one FileHeaderBlock for each OSMHeader
\* frame delivered, at the position of that frame in wire order, and an entity
\* at every other position.
C4_HeaderPerHeaderFrame ==
    (Decoding /\ Drained) =>
        LET wire == WireKeys(SubSeq(sid, 1, FramesDelivered))
        IN  /\ Len(yielded) = Len(wire)
            /\ \A i \in DOMAIN yielded :
                 IF wire[i][1] = "header" THEN IsHeader(yielded[i]) ELSE IsEntity(yielded[i])

C4_Witness ==
    /\ Decoding /\ Drained /\ sid = <<Hz, Dz(1)>> /\ sent = Len(Input(sid))
    /\ IsHeader(yielded[1]) /\ Len(yielded) = 1 + Len(BlockKeys(BlockMixed))

BadType(f) == f.type # OSMHeaderStr /\ f.type # OSMDataStr

\* C5: for a frame whose BlobHeader type is neither OSMHeader nor OSMData, the
\* decode has failed with the sequence error as soon as the header bytes are
\* delivered, with the status still 1; the status is never 2 or 3 in that frame.
C5_UnknownTypeRejected ==
    \A j \in DOMAIN sid :
        (BadType(sid[j]) /\ GoodPrefix(sid, j)) =>
            /\ sent >= HeaderEnd(sid, j)
                 => (phase = "failed" /\ err = SequenceError /\ dec.status = 1)
            /\ sent > FrameStart(sid, j) => dec.status \in {0, 1}

C5_Witness ==
    /\ phase = "failed" /\ err = SequenceError
    /\ sid = <<Hz, Fr(UnknownStr, <<3>>, 1)>> /\ sent = HeaderEnd(sid, 2)

\* the unsupported codec fields the Blob of the frame populates
UnsupportedIn(f) == {t \in UnsupportedTags : \E i \in DOMAIN f.fields : f.fields[i][1] = t}

\* C6: for a frame whose Blob populates an unsupported codec field, the decode
\* has failed once the Blob is delivered, with the message naming such a field,
\* and nothing of the frame is emitted.
C6_UnsupportedCodecRejected ==
    \A j \in DOMAIN sid :
        (~BadType(sid[j]) /\ GoodPrefix(sid, j) /\ UnsupportedIn(sid[j]) # {}
           /\ sent >= FrameEnd(sid, j)) =>
            /\ phase = "failed"
            /\ \E t \in UnsupportedIn(sid[j]) : err = NotImplemented(FieldName(t))
            /\ Keys(Emitted) = WireKeys(SubSeq(sid, 1, j - 1))

\* the same, for a Blob whose only payload field is the unsupported one
SoleUnsupportedCodecRejected ==
    \A j \in DOMAIN sid :
        (~BadType(sid[j]) /\ GoodPrefix(sid, j) /\ UnsupportedIn(sid[j]) # {}
           /\ Len(sid[j].fields) = 1 /\ sent >= FrameEnd(sid, j)) =>
            /\ phase = "failed"
            /\ err = NotImplemented(FieldName(sid[j].fields[1][1]))
            /\ Keys(Emitted) = WireKeys(SubSeq(sid, 1, j - 1))

\* the input of C6: zlib_data and lzma_data in one Blob, decoded from zlib_data
SilentFallback ==
    /\ sid = <<Hz, Fr(OSMDataStr, <<3, 4>>, 1)>> /\ phase = "ended"
    /\ Len(Emitted) = 1 + Len(BlockKeys(BlockMixed))

RawFrame(f) == Len(f.fields) = 1 /\ f.fields[1][1] = 1
ZlibTwin(f) == [f EXCEPT !.fields = <<<<3, deflateSync(f.fields[1][2])>>>>]
\* the stream with every raw Blob replaced by the zlib Blob of the same bytes
TwinStream(s) == [j \in DOMAIN s |-> IF RawFrame(s[j]) THEN ZlibTwin(s[j]) ELSE s[j]]

\* C7: a stream with raw Blobs, in OSMHeader or OSMData frames, decodes to the
\* items and the outcome of the stream whose Blobs hold the same bytes deflated.
C7_RawPassThrough ==
    (Decoding /\ Terminal /\ sent = Len(Input(sid)) /\ \E j \in DOMAIN sid : RawFrame(sid[j])) =>
        LET ref == WholeRun(Input(TwinStream(sid)), with)
        IN  Emitted = ref.items /\ Outcome = ref.outcome

\* the same, for streams whose raw Blobs are all in OSMHeader frames
RawHeaderPassThrough ==
    (Decoding /\ Terminal /\ sent = Len(Input(sid))
       /\ (\E j \in DOMAIN sid : RawFrame(sid[j]))
       /\ \A j \in DOMAIN sid : RawFrame(sid[j]) => sid[j].type = OSMHeaderStr) =>
        LET ref == WholeRun(Input(TwinStream(sid)), with)
        IN  Emitted = ref.items /\ Outcome = ref.outcome

\* the input of C7: a raw OSMData Blob is refused
RawDataRefused ==
    /\ sid = <<Hz, Dr(1)>> /\ Decoding /\ phase = "failed" /\ err = NotImplemented("raw")

\* the frame is a zlib OSMData frame of a block with changesets in some group
HoldsChangesets(f) ==
    \E k \in DOMAIN Blocks :
        /\ f = Dz(k)
        /\ \E g \in DOMAIN Blocks[k].primitivegroup :
               Len(Blocks[k].primitivegroup[g].changesets) > 0

\* C8: for a block with changesets, the decode has failed with the changesets
\* error once the frame is delivered, nothing of that block is emitted, also
\* not the entities of its groups before the changesets, and every entity of
\* the frames before it is emitted.
C8_ChangesetsRejected ==
    \A j \in DOMAIN sid :
        (Decoding /\ HoldsChangesets(sid[j]) /\ GoodPrefix(sid, j)
           /\ sent >= FrameEnd(sid, j)) =>
            /\ phase = "failed" /\ err = ChangesetsError
            /\ Keys(Emitted) = WireKeys(SubSeq(sid, 1, j - 1))

C8_Witness ==
    /\ phase = "failed" /\ err = ChangesetsError
    /\ sid = <<Hz, Dz(1), Dz(3)>>
    /\ Len(Emitted) = 1 + Len(BlockKeys(BlockMixed))

----------------------------------------------------------------------------
(* The entity specification: a decoder is constructed from an options      *)
(* object and decodes one primitive block.                                 *)

\* a value of withTags.node / .way / .relation a caller may pass
KindVals ==
    {JUndef, JBool(TRUE), JBool(FALSE), JArr(<<>>), JArr(<<"highway">>),
     JArr(<<"highway", "name">>), JArr(<<"amenity">>), JNum, JStr}

TagsOptions ==
    {JUndef, JNull, JBool(TRUE), JBool(FALSE), JNum, JStr, JArr(<<"highway">>)}
    \cup {JObj(v, v, v) : v \in KindVals}
    \cup {JObj(JArr(<<"highway">>), JBool(FALSE), JUndef),
          JObj(JBool(TRUE), JNum, JBool(TRUE)),
          JObj(JBool(FALSE), JBool(TRUE), JArr(<<"name">>))}

EntityOpts == {[withTags |-> t, withInfo |-> FALSE, writeRaw |-> FALSE] : t \in TagsOptions}

\* indexes into StringTable of the keys and of the values of generated tags
KeyIdx == {1, 2}
ValIdx == {3, 4}

KeyLists == SeqsUpTo(KeyIdx, MaxTags)
ValLists == SeqsUpTo(ValIdx, MaxTags)

OneGroup(nodes, dense, ways, relations) ==
    WBlock(<<WGroup(nodes, dense, ways, relations, <<>>)>>)

RECURSIVE Interleave(_, _)
Interleave(keys, vals) ==
    IF keys = <<>> THEN <<>>
    ELSE <<Head(keys), Head(vals)>> \o Interleave(Tail(keys), Tail(vals))

\* the keys_vals segment of one dense node, with its 0 sentinel
Segment(keys, vals) == Interleave(keys, vals) \o <<0>>

\* the parallel keys and vals of a record
TagLists == {t \in KeyLists \X ValLists : Len(t[1]) = Len(t[2])}

\* a dense group of two nodes: the tags of the first of any length, of the
\* second at most one
DenseBlocks ==
    {OneGroup(<<>>, Some(WDense(<<30, 1>>, <<1, 1>>, <<2, 2>>, <<>>, Null)), <<>>, <<>>)}
    \cup {OneGroup(<<>>,
                   Some(WDense(<<30, 1>>, <<1, 1>>, <<2, 2>>,
                               Segment(t1[1], t1[2]) \o Segment(t2[1], t2[2]), Null)),
                   <<>>, <<>>) :
          t1 \in TagLists, t2 \in {t \in TagLists : Len(t[1]) <= 1}}

EntityBlocks ==
    {OneGroup(<<WNode(31, k, v)>>, Null, <<>>, <<>>) : k \in KeyLists, v \in ValLists}
    \cup {OneGroup(<<>>, Null, <<WWay(32, <<1, 1>>, k, v)>>, <<>>) :
          k \in KeyLists, v \in ValLists}
    \cup {OneGroup(<<>>, Null, <<>>, <<WRel(33, <<1>>, <<0>>, <<5>>, k, v)>>) :
          k \in KeyLists, v \in ValLists}
    \cup DenseBlocks

NoWith ==
    [ok |-> FALSE, withTags |-> [node |-> FUndef, way |-> FUndef, relation |-> FUndef],
     withInfo |-> FALSE, writeRaw |-> FALSE]

\* the options of the info cases: tags on or off, info on or off
InfoOpts ==
    {[withTags |-> JBool(t), withInfo |-> i, writeRaw |-> FALSE] : t \in BOOLEAN, i \in BOOLEAN}

\* the sequence of n times x
Reps(x, n) == [i \in 1 .. n |-> x]

Neg(d) == [i \in DOMAIN d |-> 0 - d[i]]

\* an Info message as Info.read returns it; visible is "true", "false", or
\* Undefined when the wire has no visible field; version is -1 when the wire
\* has no version field
WInfo(version, timestamp, changeset, uid, user_sid, visible) ==
    [version |-> version, timestamp |-> timestamp, changeset |-> changeset,
     uid |-> uid, user_sid |-> user_sid, visible |-> visible]

\* a DenseInfo message as DenseInfo.read returns it: six arrays
WDenseInfo(version, timestamp, changeset, uid, user_sid, visible) ==
    [version |-> version, timestamp |-> timestamp, changeset |-> changeset,
     uid |-> uid, user_sid |-> user_sid, visible |-> visible]

WithInfo(rec, info) == [rec EXCEPT !.info = info]

\* user_sid 5 names "alice", 6 is past the string table
InfoRecs ==
    {WInfo(v, t, c, u, s, vis) :
       v \in {-1, 0, 2}, t \in {0, 5}, c \in {0, 7}, u \in {0, 9}, s \in {0, 5, 6},
       vis \in {"true", "false", Undefined}}

\* a record's info field: absent, or an Info message
InfoFields == {Null} \cup {Some(r) : r \in InfoRecs}

\* one node, one way or one relation with one tag and any info field
PlainInfoBlocks ==
    {OneGroup(<<WithInfo(WNode(31, <<1>>, <<3>>), i)>>, Null, <<>>, <<>>) : i \in InfoFields}
    \cup {OneGroup(<<>>, Null, <<WithInfo(WWay(32, <<1, 1>>, <<1>>, <<3>>), i)>>, <<>>) :
          i \in InfoFields}
    \cup {OneGroup(<<>>, Null, <<>>,
                   <<WithInfo(WRel(33, <<1>>, <<0>>, <<5>>, <<1>>, <<3>>), i)>>) :
          i \in InfoFields}

\* the dense infos of two nodes, delta-coded, with parallel arrays; the visible
\* array is absent, whole, or one short
DenseInfos ==
    {WDenseInfo(v, t, c, u, s, vis) :
       v \in {<<0, 0>>, <<2, 0>>, <<-1, -1>>},
       t \in {<<0, 0>>, <<5, -5>>, <<0, 5>>},
       c \in {<<0, 0>>, <<7, 0>>},
       u \in {<<0, 0>>, <<9, -9>>},
       s \in {<<0, 0>>, <<5, -5>>, <<5, 1>>},
       vis \in {<<>>, <<"true", "false">>, <<"false">>}}

DenseOf(id, denseinfo) ==
    OneGroup(<<>>, Some(WDense(id, Reps(1, Len(id)), Reps(2, Len(id)), <<>>, denseinfo)),
             <<>>, <<>>)

DenseInfoBlocks ==
    {DenseOf(<<30, 1>>, Null)} \cup {DenseOf(<<30, 1>>, Some(di)) : di \in DenseInfos}

\* a dense info whose six arrays all have the length of id
ParallelInfo ==
    WDenseInfo(<<1, 1>>, <<5, 5>>, <<7, 0>>, <<9, 0>>, <<5, 0>>, <<"true", "false">>)

DenseInfoNames == {"version", "timestamp", "changeset", "uid", "user_sid", "visible"}

\* two dense nodes with one array of the dense info of another length than id,
\* and a dense record without nodes whose dense info has one entry per array
DenseLenBlocks ==
    {DenseOf(<<30, 1>>,
             Some([ParallelInfo EXCEPT ![f] = Reps(IF f = "visible" THEN "false" ELSE 1, n)])) :
       f \in DenseInfoNames, n \in {0, 1, 3}}
    \cup {DenseOf(<<>>, Some(WDenseInfo(<<1>>, <<5>>, <<7>>, <<9>>, <<5>>, <<"false">>)))}

DeltaVals == {-1, 1, 2}
DeltaLists == SeqsUpTo(DeltaVals, MaxRefs)

\* the delta lists of two successive records
DeltaPairs == {d \in DeltaLists \X DeltaLists : Len(d[2]) <= 1}

DeltaDense(d) ==
    WDense(d, d, Neg(d), <<>>,
           Some(WDenseInfo(Reps(1, Len(d)), d, Neg(d), d, d, <<>>)))

\* two ways, two relations, or two dense records in successive groups
DeltaBlocks ==
    {OneGroup(<<>>, Null, <<WWay(32, d[1], <<>>, <<>>), WWay(34, d[2], <<>>, <<>>)>>, <<>>) :
       d \in DeltaPairs}
    \cup {OneGroup(<<>>, Null, <<>>,
                   <<WRel(33, d[1], Reps(0, Len(d[1])), Reps(5, Len(d[1])), <<>>, <<>>),
                     WRel(35, d[2], Reps(1, Len(d[2])), Reps(5, Len(d[2])), <<>>, <<>>)>>) :
          d \in DeltaPairs}
    \cup {WBlock(<<WGroup(<<>>, Some(DeltaDense(d[1])), <<>>, <<>>, <<>>),
                   WGroup(<<>>, Some(DeltaDense(d[2])), <<>>, <<>>, <<>>)>>) :
          d \in DeltaPairs}

\* one tagged relation whose member arrays have any lengths
RelArrayBlocks ==
    {OneGroup(<<>>, Null, <<>>,
              <<WRel(33, Reps(1, a), Reps(0, b), Reps(5, c), <<1>>, <<3>>)>>) :
       a \in 0 .. MaxRefs, b \in 0 .. MaxRefs, c \in 0 .. MaxRefs}

\* one node, one way or one relation with two keys and one value
TagMismatchBlocks ==
    {OneGroup(<<WNode(31, <<1, 2>>, <<3>>)>>, Null, <<>>, <<>>),
     OneGroup(<<>>, Null, <<WWay(32, <<1, 1>>, <<1, 2>>, <<3>>)>>, <<>>),
     OneGroup(<<>>, Null, <<>>, <<WRel(33, <<1>>, <<0>>, <<5>>, <<1, 2>>, <<3>>)>>)}

\* the wire values of date_granularity: 0 (the field absent or 0) and two others
DateGranularities == {0, 1, 250}

\* a timestamped node, way, relation or pair of dense nodes
TimedRecords ==
    {OneGroup(<<WithInfo(WNode(31, <<>>, <<>>), Some(WInfo(2, t, 0, 0, 0, Undefined)))>>,
              Null, <<>>, <<>>) : t \in {0, 5}}
    \cup {OneGroup(<<>>, Null,
                   <<WithInfo(WWay(32, <<1>>, <<>>, <<>>),
                              Some(WInfo(2, t, 0, 0, 0, Undefined)))>>, <<>>) : t \in {0, 5}}
    \cup {OneGroup(<<>>, Null, <<>>,
                   <<WithInfo(WRel(33, <<1>>, <<0>>, <<5>>, <<>>, <<>>),
                              Some(WInfo(2, t, 0, 0, 0, Undefined)))>>) : t \in {0, 5}}
    \cup {DenseOf(<<30, 1>>,
                  Some(WDenseInfo(<<0, 0>>, t, <<0, 0>>, <<0, 0>>, <<0, 0>>, <<>>))) :
          t \in {<<5, -5>>, <<2, 1>>}}

\* the timestamped records in blocks of every date_granularity
GranularityBlocks ==
    {[b EXCEPT !.date_granularity = g] : b \in TimedRecords, g \in DateGranularities}

\* the wire values of a member type: the three of the enumeration and one more
WireTypes == {0, 1, 2, 3}

\* one relation of two members of any wire types
RelTypeBlocks ==
    {OneGroup(<<>>, Null, <<>>,
              <<WRel(33, <<1, 1>>, <<t1, t2>>, <<5, 0>>, <<>>, <<>>)>>) :
       t1 \in WireTypes, t2 \in WireTypes}

InfoBlocks ==
    PlainInfoBlocks \cup DenseInfoBlocks \cup DenseLenBlocks \cup DeltaBlocks
    \cup RelArrayBlocks \cup TagMismatchBlocks \cup GranularityBlocks \cup RelTypeBlocks

\* the options and the block of a run: every tags configuration without info,
\* and tags on or off with info on or off
\* two dense nodes whose keys_vals has no sentinel, one sentinel, or ends
\* inside a pair
UnterminatedBlocks ==
    {OneGroup(<<>>, Some(WDense(<<30, 1>>, <<1, 1>>, <<2, 2>>, kv, Null)), <<>>, <<>>) :
       kv \in {<<1, 3>>, <<1, 3, 0>>, <<1, 3, 0, 2>>, <<1, 3, 0, 2, 4>>, <<1>>}}

EntityCases ==
    (EntityOpts \X (EntityBlocks \cup RelArrayBlocks \cup UnterminatedBlocks))
    \cup (InfoOpts \X InfoBlocks)

EntityInit ==
    /\ \E c \in EntityCases : osmopts = c[1] /\ block = c[2]
    /\ phase = "new"
    /\ with = NoWith
    /\ sid = <<>>
    /\ sent = 0
    /\ dec = NewDecoder
    /\ readable = <<>>
    /\ yielded = <<>>
    /\ err = ""

\* new OSMTransform(osmopts): with_tags may throw
Construct ==
    /\ phase = "new"
    /\ with' = Constructor(osmopts)
    /\ phase' = IF with'.ok THEN "open" ELSE "rejected"
    /\ err' = IF with'.ok THEN "" ELSE WrongTags
    /\ UNCHANGED <<osmopts, block, sid, sent, dec, readable, yielded>>

\* this.push(parse(buf, this)) for the block
Decode ==
    /\ phase = "open"
    /\ \E r \in {parseBlock(block, [transform |-> TRUE, with |-> with])} :
           /\ phase' = CASE r.st = "ok" -> "decoded"
                         [] r.st = "error" -> "failed"
                         [] r.st = "hang" -> "hung"
           /\ readable' = IF r.st = "ok" THEN <<r.v>> ELSE readable
           /\ err' = r.msg
    /\ UNCHANGED <<osmopts, with, block, sid, sent, dec, yielded>>

\* the options object of the caller as parse(buf, that) sees it: an object
\* with the properties withTags and withInfo, and no property node, way, relation
AsOptions(o) ==
    [t |-> "object", node |-> JUndef, way |-> JUndef, relation |-> JUndef,
     withTags |-> o.withTags, withInfo |-> o.withInfo]

\* parse(buf, osmopts) called ad hoc, without a decoder
AdHoc ==
    /\ phase = "new"
    /\ \E r \in {parseBlock(block, [transform |-> FALSE, opts |-> AsOptions(osmopts)])} :
           /\ phase' = CASE r.st = "ok" -> "parsed"
                         [] r.st = "error" -> "parse_failed"
                         [] r.st = "hang" -> "parse_hung"
           /\ readable' = IF r.st = "ok" THEN <<r.v>> ELSE readable
           /\ err' = r.msg
    /\ UNCHANGED <<osmopts, with, block, sid, sent, dec, yielded>>

EntityNext == Construct \/ Decode \/ AdHoc

EntitySpec == EntityInit /\ [][EntityNext]_vars

----------------------------------------------------------------------------
(* Properties of the entity specification.                                 *)

\* the tags configuration is a boolean (or absent), or a mapping whose values
\* are booleans, lists or absent
WellShaped(t) ==
    \/ t.t \in {"undefined", "null", "boolean"}
    \/ /\ t.t = "object"
       /\ \A k \in {"node", "way", "relation"} :
              t[k].t \in {"undefined", "null", "boolean", "array"}

\* the configuration is of no accepted shape: a number or a string, or a
\* mapping with a number or a string for some kind
Malformed(t) ==
    \/ t.t \in {"number", "string"}
    \/ /\ t.t = "object"
       /\ \E k \in {"node", "way", "relation"} : t[k].t \in {"number", "string"}

\* what a well-shaped configuration asks for a kind: TRUE, FALSE or a list
Asked(t, kind) ==
    IF t.t \in {"undefined", "null"} THEN JBool(TRUE)
    ELSE IF t.t = "boolean" THEN t
    ELSE IF t[kind].t \in {"undefined", "null"} THEN JBool(TRUE)
    ELSE t[kind]

\* the key/value pairs of a plain record, in wire order
WirePairs(strings, keys, vals) ==
    [i \in 1 .. Min(Len(keys), Len(vals)) |-> <<strings[keys[i] + 1], strings[vals[i] + 1]>>]

RECURSIVE SplitAtZeros(_, _)
\* the segments of keys_vals, each up to its 0 sentinel
SplitAtZeros(kv, cur) ==
    IF kv = <<>> THEN <<>>
    ELSE IF Head(kv) = 0 THEN <<cur>> \o SplitAtZeros(Tail(kv), <<>>)
    ELSE SplitAtZeros(Tail(kv), Append(cur, Head(kv)))

SegmentPairs(strings, seg) ==
    [i \in 1 .. (Len(seg) \div 2) |-> <<strings[seg[2 * i - 1] + 1], strings[seg[2 * i] + 1]>>]

DensePairs(strings, d) ==
    LET segs == SplitAtZeros(d.keys_vals, <<>>)
    IN  [i \in DOMAIN d.id |->
           [kind |-> "node",
            pairs |-> IF i \in DOMAIN segs THEN SegmentPairs(strings, segs[i]) ELSE <<>>]]

\* for every entity of a group in wire order, its kind and its wire pairs
GroupWire(strings, p) ==
    [i \in DOMAIN p.nodes |->
       [kind |-> "node", pairs |-> WirePairs(strings, p.nodes[i].keys, p.nodes[i].vals)]]
    \o (IF IsSet(p.dense) THEN DensePairs(strings, p.dense[1]) ELSE <<>>)
    \o [i \in DOMAIN p.ways |->
          [kind |-> "way", pairs |-> WirePairs(strings, p.ways[i].keys, p.ways[i].vals)]]
    \o [i \in DOMAIN p.relations |->
          [kind |-> "relation",
           pairs |-> WirePairs(strings, p.relations[i].keys, p.relations[i].vals)]]

BlockWire(b) ==
    Flatten([g \in DOMAIN b.primitivegroup |-> GroupWire(b.stringtable, b.primitivegroup[g])])

\* of the pairs of each key, the last one in wire order
LastPairs(pairs) ==
    {pairs[i] : i \in {i \in DOMAIN pairs :
                         \A j \in (i + 1) .. Len(pairs) : pairs[j][1] # pairs[i][1]}}

\* the tag laws for one entity: `carried` is the set of pairs the configuration
\* lets through, tags are present exactly when it is not empty
TagLaw(asked, wanted, tags) ==
    IF asked.t = "boolean" /\ ~asked.b THEN tags = Null
    ELSE IF asked.t = "array" /\ asked.a = <<>> THEN tags = Null
    ELSE LET carried == IF asked.t = "boolean" THEN wanted
                        ELSE {p \in wanted : p[1] \in Range(asked.a)}
         IN  IF carried = {} THEN tags = Null ELSE tags = Some(carried)

\* C9 as stated: with false or an empty list no entity carries tags; with true
\* an entity carries tags exactly when its record has a key, and then every
\* wire pair; with a list S, exactly when a key is in S, and then exactly the
\* wire pairs whose key is in S.  For nodes, dense nodes, ways and relations.
C9_TagFilterLaws ==
    (phase = "decoded" /\ WellShaped(osmopts.withTags)) =>
        LET wire == BlockWire(block)
        IN  \A i \in DOMAIN wire :
                TagLaw(Asked(osmopts.withTags, wire[i].kind), Range(wire[i].pairs),
                       readable[1][i].tags)

\* C9 amended: the same laws, where of the wire pairs of a key that the record
\* repeats only the last one counts.
C9_TagFilterLawsLastWins ==
    (phase = "decoded" /\ WellShaped(osmopts.withTags)) =>
        LET wire == BlockWire(block)
        IN  /\ Len(readable[1]) = Len(wire)
            /\ \A i \in DOMAIN wire :
                 /\ readable[1][i].type = wire[i].kind
                 /\ TagLaw(Asked(osmopts.withTags, wire[i].kind), LastPairs(wire[i].pairs),
                           readable[1][i].tags)

\* under the list <<"highway">>, a dense node whose record holds the key highway
\* twice carries the pair of the last one, and the next dense node, whose only
\* key is name, carries no tags
C9_Witness ==
    /\ phase = "decoded"
    /\ osmopts.withTags = JObj(JArr(<<"highway">>), JArr(<<"highway">>), JArr(<<"highway">>))
    /\ IsSet(block.primitivegroup[1].dense)
    /\ block.primitivegroup[1].dense[1].keys_vals = <<1, 3, 1, 4, 0, 2, 4, 0>>
    /\ readable[1][1].tags = Some({<<"highway", "Main">>})
    /\ readable[1][2].tags = Null

\* new OSMTransform(osmopts) has returned or thrown
Constructed == phase \in {"open", "rejected", "decoded", "failed", "hung"}

\* C10 as stated: a malformed tags configuration is rejected when the decoder
\* is constructed; no decoder ever is open, or decodes, under it.
C10_MalformedRejected ==
    (Malformed(osmopts.withTags) /\ Constructed) => (phase = "rejected" /\ err = WrongTags)

\* the same, for a mapping with a number or a string for some kind
MalformedKindRejected ==
    (osmopts.withTags.t = "object" /\ Malformed(osmopts.withTags) /\ Constructed)
        => (phase = "rejected" /\ err = WrongTags)

\* the input of C10: withTags a string; the decoder is constructed and decodes
StringAccepted ==
    /\ osmopts.withTags = JStr /\ phase = "decoded"

----------------------------------------------------------------------------
(* Properties of the info and delta decoding.                              *)

\* for every entity of a group in wire order, the record it comes from and,
\* for a dense node, its place in the dense record
GroupRecords(p) ==
    [i \in DOMAIN p.nodes |-> [kind |-> "node", dense |-> FALSE, rec |-> p.nodes[i], i |-> 0]]
    \o (IF IsSet(p.dense)
        THEN [i \in DOMAIN p.dense[1].id |->
                [kind |-> "node", dense |-> TRUE, rec |-> p.dense[1], i |-> i]]
        ELSE <<>>)
    \o [i \in DOMAIN p.ways |-> [kind |-> "way", dense |-> FALSE, rec |-> p.ways[i], i |-> 0]]
    \o [i \in DOMAIN p.relations |->
          [kind |-> "relation", dense |-> FALSE, rec |-> p.relations[i], i |-> 0]]

BlockRecords(b) ==
    Flatten([g \in DOMAIN b.primitivegroup |-> GroupRecords(b.primitivegroup[g])])

\* the info the wire holds for an entity: Null, or the Info of a plain record,
\* or for a dense node the decoded columns of the dense info at its place
WireInfo(e) ==
    IF ~e.dense THEN e.rec.info
    ELSE IF ~IsSet(e.rec.denseinfo) THEN Null
    ELSE LET di == e.rec.denseinfo[1]
         IN  Some(WInfo(di.version[e.i],
                        PrefixSums(di.timestamp, 0)[e.i],
                        PrefixSums(di.changeset, 0)[e.i],
                        PrefixSums(di.uid, 0)[e.i],
                        PrefixSums(di.user_sid, 0)[e.i],
                        At(di.visible, e.i - 1)))

\* the fields of an entity's info that are not at their sentinel
Qualifying(strings, w) ==
    {f \in {"version", "timestamp", "changeset", "uid"} : w[f] # 0}
    \cup (IF w.user_sid # 0 /\ w.user_sid \in 0 .. (Len(strings) - 1)
             /\ strings[w.user_sid + 1] # ""
          THEN {"user"} ELSE {})
    \cup (IF w.visible = "false" THEN {"visible"} ELSE {})

InfoNames == {"version", "timestamp", "changeset", "uid", "user", "visible"}

\* the info of an entity holds exactly the fields of q, with the wire's values
ExactlyFields(strings, w, q, info) ==
    /\ {f \in InfoNames : info[f] # Null} = q
    /\ \A f \in q \cap {"version", "changeset", "uid"} : info[f] = Some(w[f])
    /\ "user" \in q => info.user = Some(strings[w.user_sid + 1])
    /\ "visible" \in q => info.visible = Some(FALSE)

\* C11: an entity carries info exactly when info is enabled, the wire holds
\* info for it and some field of that info is not at its sentinel; then the
\* info holds exactly the fields that are not; an empty info is never attached.
\* For nodes, dense nodes, ways and relations.
C11_InfoOmission ==
    phase \in {"decoded", "parsed"} =>
        LET recs == BlockRecords(block)
        IN  /\ Len(readable[1]) = Len(recs)
            /\ \A i \in DOMAIN recs :
                 LET got == readable[1][i].info
                 IN  IF ~osmopts.withInfo THEN got = Null
                     ELSE LET w == WireInfo(recs[i])
                          IN  IF w = Null THEN got = Null
                              ELSE LET q == Qualifying(block.stringtable, w[1])
                                   IN  IF q = {} THEN got = Null
                                       ELSE /\ got # Null
                                            /\ ExactlyFields(block.stringtable, w[1], q,
                                                             got[1])

\* with info enabled, of two dense nodes the first carries an info of exactly
\* version, timestamp, uid and user, and the second, all of whose decoded
\* columns are at their sentinels, carries none
C11_Witness ==
    /\ phase = "decoded" /\ osmopts.withInfo
    /\ block = DenseOf(<<30, 1>>,
                        Some(WDenseInfo(<<2, 0>>, <<5, -5>>, <<0, 0>>, <<9, -9>>, <<5, -5>>,
                                        <<>>)))
    /\ readable[1][1].info # Null
    /\ {f \in InfoNames : readable[1][1].info[1][f] # Null}
           = {"version", "timestamp", "uid", "user"}
    /\ readable[1][2].info = Null

\* the date granularity of a block: the wire value, 1000 for 0
DateGranularity(b) == IF b.date_granularity = 0 THEN 1000 ELSE b.date_granularity

\* a field of an entity's info; Null when the entity has no info
InfoField(info, f) == IF info = Null THEN Null ELSE info[1][f]

\* the info columns of dense node e, decoded as running sums from 0
DenseColumnsSummed(b, e, info) ==
    LET di == e.rec.denseinfo[1]
        ts == PrefixSums(di.timestamp, 0)[e.i]
        cs == PrefixSums(di.changeset, 0)[e.i]
        uid == PrefixSums(di.uid, 0)[e.i]
        us == PrefixSums(di.user_sid, 0)[e.i]
    IN  /\ InfoField(info, "timestamp")
              = IF ts = 0 THEN Null ELSE Some(ts * DateGranularity(b))
        /\ InfoField(info, "changeset") = IF cs = 0 THEN Null ELSE Some(cs)
        /\ InfoField(info, "uid") = IF uid = 0 THEN Null ELSE Some(uid)
        /\ InfoField(info, "user")
              = IF us \in 1 .. (Len(b.stringtable) - 1) /\ b.stringtable[us + 1] # ""
                THEN Some(b.stringtable[us + 1]) ELSE Null

\* C12: the refs of a way, the member refs of a relation and the id, lat, lon
\* and the timestamp, changeset, uid and user_sid columns of a dense record
\* are the running sums of the wire deltas, each record starting from 0.
C12_DeltaDecoded ==
    phase \in {"decoded", "parsed"} =>
        LET recs == BlockRecords(block)
            out == readable[1]
        IN  /\ Len(out) = Len(recs)
            /\ \A i \in DOMAIN recs :
                 LET e == recs[i]
                 IN  CASE e.kind = "way" -> out[i].refs = PrefixSums(e.rec.refs, 0)
                       [] e.kind = "relation" ->
                            [m \in DOMAIN out[i].members |-> out[i].members[m].ref]
                                = PrefixSums(e.rec.memids, 0)
                       [] e.dense ->
                            /\ out[i].id = PrefixSums(e.rec.id, 0)[e.i]
                            /\ out[i].lat = Coord(block.lat_offset,
                                                  PrefixSums(e.rec.lat, 0)[e.i],
                                                  DefaultGranularity)
                            /\ out[i].lon = Coord(block.lon_offset,
                                                  PrefixSums(e.rec.lon, 0)[e.i],
                                                  DefaultGranularity)
                            /\ (osmopts.withInfo /\ IsSet(e.rec.denseinfo))
                                   => DenseColumnsSummed(block, e, out[i].info)
                       [] OTHER -> TRUE

\* two dense records of deltas <<2, -1>> and <<1>>: the nodes get the ids 2, 1
\* and 1, the second node the timestamp of the sum 1
C12_Witness ==
    /\ phase = "decoded" /\ osmopts.withInfo
    /\ Len(block.primitivegroup) = 2
    /\ IsSet(block.primitivegroup[1].dense)
    /\ block.primitivegroup[1].dense[1].id = <<2, -1>>
    /\ block.primitivegroup[2].dense[1].id = <<1>>
    /\ readable[1][1].id = 2 /\ readable[1][2].id = 1 /\ readable[1][3].id = 1
    /\ readable[1][2].lat = 100 /\ readable[1][2].lon = -100
    /\ InfoField(readable[1][2].info, "timestamp") = Some(1000)
    /\ InfoField(readable[1][3].info, "user") = Some("highway")

\* some plain record of the block has keys and vals of unequal lengths
TagArraysUnequal(b) ==
    \E i \in DOMAIN BlockRecords(b) :
        LET e == BlockRecords(b)[i]
        IN  ~e.dense /\ Len(e.rec.keys) # Len(e.rec.vals)

\* some relation of the block has memids, types and roles of unequal lengths
MemberArraysUnequal(b) ==
    \E i \in DOMAIN BlockRecords(b) :
        LET e == BlockRecords(b)[i]
        IN  /\ e.kind = "relation"
            /\ ~(Len(e.rec.memids) = Len(e.rec.types)
                   /\ Len(e.rec.memids) = Len(e.rec.roles_sid))

\* parse has returned or thrown
Parsed == phase \in {"decoded", "failed", "parsed", "parse_failed"}

Refused == phase \in {"failed", "parse_failed"} /\ err = FormatError

\* C13: under every tag and info configuration, a node, way or relation whose
\* keys and vals differ in length, and a relation whose memids, types and roles
\* differ in length, makes the decoding fail with the format error; no entity
\* is emitted.
C13_UnequalArraysRejected ==
    (Parsed /\ WellShaped(osmopts.withTags)
       /\ (TagArraysUnequal(block) \/ MemberArraysUnequal(block)))
        => Refused

\* the same for the member arrays of a relation alone
MemberArraysRejected ==
    (Parsed /\ WellShaped(osmopts.withTags) /\ MemberArraysUnequal(block)) => Refused

\* the same for keys and vals, where the tags of the record's kind are asked for
TagArraysRejectedWhenAsked ==
    (phase \in {"decoded", "failed"} /\ WellShaped(osmopts.withTags))
        => \A i \in DOMAIN BlockRecords(block) :
               LET e == BlockRecords(block)[i]
                   asked == Asked(osmopts.withTags, e.kind)
               IN  (/\ ~e.dense /\ Len(e.rec.keys) # Len(e.rec.vals)
                    /\ ~(asked.t = "boolean" /\ ~asked.b)
                    /\ ~(asked.t = "array" /\ asked.a = <<>>))
                       => Refused

\* the input of C13: with tags switched off, a node of two keys and one value
\* is decoded
UnequalTagsDecoded ==
    /\ phase = "decoded" /\ osmopts.withTags = JBool(FALSE)
    /\ block = OneGroup(<<WNode(31, <<1, 2>>, <<3>>)>>, Null, <<>>, <<>>)
    /\ Len(readable[1]) = 1 /\ readable[1][1].tags = Null

\* the place just past the i-th 0 sentinel of kv
PastZero(kv, i) ==
    CHOOSE p \in DOMAIN kv : kv[p] = 0 /\ Cardinality({q \in 1 .. p : kv[q] = 0}) = i

\* the node tags are enabled: true, or a list that is not empty
NodeTagsEnabled ==
    LET asked == Asked(osmopts.withTags, "node")
    IN  (asked.t = "boolean" /\ asked.b) \/ (asked.t = "array" /\ asked.a # <<>>)

\* C18: with node tags enabled and keys_vals not empty, the tags of dense node
\* i come exactly from the pairs between the (i-1)-th and the i-th 0 sentinel,
\* and after node i the cursor is just past the i-th sentinel, whatever the
\* filter rejected; with keys_vals empty no dense node gets tags.
C18_DenseSegments ==
    (phase = "decoded" /\ WellShaped(osmopts.withTags) /\ NodeTagsEnabled) =>
        LET recs == BlockRecords(block)
        IN  \A i \in DOMAIN recs :
                recs[i].dense =>
                    LET kv == recs[i].rec.keys_vals
                        n == recs[i].i
                        segs == SplitAtZeros(kv, <<>>)
                    IN  IF kv = <<>> THEN readable[1][i].tags = Null
                        ELSE /\ CursorAfter(block.stringtable, kv, with.withTags.node, n)
                                  = PastZero(kv, n)
                             /\ TagLaw(Asked(osmopts.withTags, "node"),
                                       LastPairs(SegmentPairs(block.stringtable, segs[n])),
                                       readable[1][i].tags)

\* under the list <<"highway">>, the first dense node's pair of key name is
\* rejected and its pair of key highway kept; the second node gets the pair of
\* its own segment, and the cursor is at 5 and then at 8
C18_Witness ==
    /\ phase = "decoded"
    /\ osmopts.withTags = JObj(JArr(<<"highway">>), JBool(FALSE), JUndef)
    /\ IsSet(block.primitivegroup[1].dense)
    /\ block.primitivegroup[1].dense[1].keys_vals = <<2, 4, 1, 3, 0, 1, 4, 0>>
    /\ readable[1][1].tags = Some({<<"highway", "residential">>})
    /\ readable[1][2].tags = Some({<<"highway", "Main">>})
    /\ CursorAfter(block.stringtable, <<2, 4, 1, 3, 0, 1, 4, 0>>, with.withTags.node, 1) = 5
    /\ CursorAfter(block.stringtable, <<2, 4, 1, 3, 0, 1, 4, 0>>, with.withTags.node, 2) = 8

\* the dense records of the block that have a dense info
InformedDense(b) ==
    {b.primitivegroup[g].dense[1] :
       g \in {g \in DOMAIN b.primitivegroup :
                /\ IsSet(b.primitivegroup[g].dense)
                /\ IsSet(b.primitivegroup[g].dense[1].denseinfo)}}

\* some array of `names` of the dense info has another length than id
UnequalTo(d, names) == \E f \in names : Len(d.denseinfo[1][f]) # Len(d.id)

\* the arrays of a dense info that parse_dense compares with id
ComparedNames == DenseInfoNames \ {"visible"}

\* C19 as stated: with info enabled, a dense info any of whose six arrays,
\* visible included, has another length than id makes the decoding fail with
\* the format error.
C19_DenseInfoParallel ==
    (phase \in {"decoded", "failed"} /\ osmopts.withInfo
       /\ \E d \in InformedDense(block) : UnequalTo(d, DenseInfoNames))
        => Refused

\* C19 amended: with info enabled, a dense record of at least one node whose
\* dense info has a timestamp, changeset, uid, user_sid or version array of
\* another length than id makes the decoding fail with the format error, and
\* no node is emitted; the length of visible is not compared, nor is any
\* array of a record without nodes: then every node is emitted.
C19_ComparedArraysParallel ==
    (phase \in {"decoded", "failed"} /\ osmopts.withInfo /\ InformedDense(block) # {}) =>
        IF \E d \in InformedDense(block) : d.id # <<>> /\ UnequalTo(d, ComparedNames)
        THEN Refused /\ readable = <<>>
        ELSE phase = "decoded" /\ Len(readable[1]) = Len(BlockRecords(block))

\* with info enabled, a dense info whose timestamp array has one entry for two
\* nodes is refused
C19_Witness ==
    /\ phase = "failed" /\ err = FormatError /\ osmopts.withInfo /\ readable = <<>>
    /\ block = DenseOf(<<30, 1>>, Some([ParallelInfo EXCEPT !.timestamp = <<1>>]))

\* with info enabled, a dense info without visible entries for its two nodes
\* is decoded
NoVisibleDecoded ==
    /\ phase = "decoded" /\ osmopts.withInfo
    /\ block = DenseOf(<<30, 1>>, Some([ParallelInfo EXCEPT !.visible = <<>>]))
    /\ Len(readable[1]) = 2

\* with info enabled, a dense record without nodes whose dense info has one
\* entry in every array is decoded
NoNodesDecoded ==
    /\ phase = "decoded" /\ osmopts.withInfo
    /\ block = DenseOf(<<>>, Some(WDenseInfo(<<1>>, <<5>>, <<7>>, <<9>>, <<5>>, <<"false">>)))
    /\ readable = <<<<>>>>

\* what a decoder constructed with the options o pushes for the block
Streamed(o) == parseBlock(block, [transform |-> TRUE, with |-> Constructor(o)])

\* the outcome of the ad hoc parse is the outcome st of a decoder
SameOutcome(st) ==
    /\ phase = "parsed" <=> st.st = "ok"
    /\ phase = "parsed" => readable[1] = st.v
    /\ phase = "parse_failed" => (st.st = "error" /\ err = st.msg)

\* C20: for every block and every configuration {withTags, withInfo}, parse
\* called ad hoc with the configuration object returns the entities that a
\* decoder constructed with the same configuration pushes for the block.
C20_AdHocEqualsStreaming ==
    (phase \in {"parsed", "parse_failed"} /\ WellShaped(osmopts.withTags))
        => SameOutcome(Streamed(osmopts))

\* the ad hoc parse returns what a decoder with all tags switched on and the
\* same info flag pushes
AdHocKeepsAllTags ==
    phase \in {"parsed", "parse_failed"}
        => SameOutcome(Streamed([osmopts EXCEPT !.withTags = JBool(TRUE)]))

\* the input of C20: parse called ad hoc with withTags false returns a node
\* with its tags
AdHocTagsUnfiltered ==
    /\ phase = "parsed" /\ osmopts.withTags = JBool(FALSE) /\ ~osmopts.withInfo
    /\ block = OneGroup(<<WNode(31, <<1>>, <<3>>)>>, Null, <<>>, <<>>)
    /\ readable[1][1].tags = Some({<<"highway", "residential">>})
    /\ Streamed(osmopts).v[1].tags = Null

\* the raw timestamp count the wire holds for an entity: the Info's value, or
\* for a dense node the running sum of the timestamp deltas up to its place
RawCount(e) ==
    IF ~e.dense THEN e.rec.info[1].timestamp
    ELSE PrefixSums(e.rec.denseinfo[1].timestamp, 0)[e.i]

HasWireInfo(e) == IF e.dense THEN IsSet(e.rec.denseinfo) ELSE IsSet(e.rec.info)

\* C21: every emitted info timestamp is the raw count times the block's date
\* granularity, which is the wire value, or 1000 when the wire value is 0; the
\* raw count is the wire value of a plain record and the running sum of the
\* deltas for a dense node; the timestamp is present iff the raw count is not 0.
C21_TimestampScaled ==
    (phase \in {"decoded", "parsed"} /\ osmopts.withInfo) =>
        LET recs == BlockRecords(block)
        IN  \A i \in DOMAIN recs :
                HasWireInfo(recs[i]) =>
                    InfoField(readable[1][i].info, "timestamp")
                        = IF RawCount(recs[i]) = 0 THEN Null
                          ELSE Some(RawCount(recs[i]) * DateGranularity(block))

\* in a block of wire date_granularity 0, two dense nodes of timestamp deltas
\* <<2, 1>> get the timestamps 2000 and 3000
C21_Witness ==
    /\ phase = "decoded" /\ osmopts.withInfo /\ block.date_granularity = 0
    /\ IsSet(block.primitivegroup[1].dense)
    /\ block.primitivegroup[1].dense[1].denseinfo[1].timestamp = <<2, 1>>
    /\ InfoField(readable[1][1].info, "timestamp") = Some(2000)
    /\ InfoField(readable[1][2].info, "timestamp") = Some(3000)

\* in a block of wire date_granularity 250, a way of raw count 5 gets the
\* timestamp 1250
WireGranularityUsed ==
    /\ phase = "decoded" /\ osmopts.withInfo /\ block.date_granularity = 250
    /\ Len(block.primitivegroup[1].ways) = 1
    /\ InfoField(readable[1][1].info, "timestamp") = Some(1250)

\* the kinds of a relation member
MemberKinds == {"node", "way", "relation"}

\* the kind the enumeration gives a wire type
KindOf(t) == CASE t = 0 -> "node" [] t = 1 -> "way" [] t = 2 -> "relation"

\* C22: every member of every emitted relation has a kind of node, way or
\* relation, that of its wire type 0, 1 or 2; no relation is emitted with a
\* member of another kind, whatever the wire type.
C22_MemberKinds ==
    phase \in {"decoded", "parsed"} =>
        LET recs == BlockRecords(block)
        IN  \A i \in DOMAIN recs :
                recs[i].kind = "relation" =>
                    \A m \in DOMAIN readable[1][i].members :
                        /\ readable[1][i].members[m].type \in MemberKinds
                        /\ recs[i].rec.types[m] \in 0 .. 2
                               => readable[1][i].members[m].type = KindOf(recs[i].rec.types[m])

\* the members of the wire types 0, 1 and 2 get the kinds node, way and relation
KnownTypesMapped ==
    phase \in {"decoded", "parsed"} =>
        LET recs == BlockRecords(block)
        IN  \A i \in DOMAIN recs :
                recs[i].kind = "relation" =>
                    /\ Len(readable[1][i].members) = Len(recs[i].rec.types)
                    /\ \A m \in DOMAIN readable[1][i].members :
                           recs[i].rec.types[m] \in 0 .. 2
                               => readable[1][i].members[m].type = KindOf(recs[i].rec.types[m])

\* the input of C22: a relation whose second member has the wire type 3 is
\* emitted, the kind of that member undefined
UnknownKindEmitted ==
    /\ phase = "decoded"
    /\ block = OneGroup(<<>>, Null, <<>>,
                        <<WRel(33, <<1, 1>>, <<2, 3>>, <<5, 0>>, <<>>, <<>>)>>)
    /\ readable[1][1].members[1].type = "relation"
    /\ readable[1][1].members[2].type = Undefined

\* C23: the decoding of a dense record ends for every id array and every
\* keys_vals, also when keys_vals holds fewer sentinels than nodes or ends
\* inside a pair: parse_dense returns or throws.
C23_DenseTerminates == phase \notin {"hung", "parse_hung"}

\* the sentinels of keys_vals
Sentinels(kv) == {p \in DOMAIN kv : kv[p] = 0}

\* the decoding ends where the node tags are off, keys_vals is empty, or it
\* holds a sentinel for every node
SentinelsSuffice ==
    phase \in {"hung", "parse_hung"} =>
        \E g \in DOMAIN block.primitivegroup :
            /\ IsSet(block.primitivegroup[g].dense)
            /\ block.primitivegroup[g].dense[1].keys_vals # <<>>
            /\ Cardinality(Sentinels(block.primitivegroup[g].dense[1].keys_vals))
                   < Len(block.primitivegroup[g].dense[1].id)
            /\ phase = "hung" => Truthy(with.withTags.node)

\* the input of C23: two dense nodes and a keys_vals of one sentinel; the tag
\* loop of the second node never ends
DenseLoopForever ==
    /\ phase = "hung" /\ osmopts.withTags = JBool(TRUE)
    /\ block = OneGroup(<<>>, Some(WDense(<<30, 1>>, <<1, 1>>, <<2, 2>>, <<1, 3, 0>>, Null)),
                        <<>>, <<>>)
    /\ readable = <<>>

----------------------------------------------------------------------------
(* Properties of the framing state machine.                                *)

\* C14: at every moment at most one batch has been pushed and not yet taken by
\* the consumer, also when one chunk holds several complete frames.
C14_WindowOfOneBatch == Len(readable) <= 1

\* the input of C14: one chunk with an OSMHeader and an OSMData frame leaves two
\* batches pushed by one call of _transform
TwoBatchesPending ==
    /\ sid = <<Hz, Dz(1)>> /\ sent = Len(Input(sid)) /\ Len(readable) = 2 /\ yielded = <<>>

\* the bytes buffered from the offset on, and the bytes of the stream consumed
Buffered == IF IsSet(dec.buffer) THEN Len(dec.buffer[1]) - dec.offset ELSE 0
Consumed == sent - Buffered

\* a step of Write that changes the state: _transform ran on a chunk
WriteStep == phase = "open" /\ readable = <<>> /\ ~EndOfInput

\* C15: _transform makes no progress when the bytes buffered with the new chunk
\* are fewer than needed (status, needed unchanged, nothing pushed, no error);
\* it makes progress when they are enough; and it asks for the next chunk only
\* with fewer than needed bytes left, never having read past the buffer.
C15_ProgressIffEnoughBytes ==
    [][WriteStep =>
         LET avail == Buffered + (sent' - sent)
         IN  /\ avail < dec.needed
                  => /\ phase' = "open" /\ readable' = <<>>
                     /\ dec'.status = dec.status /\ dec'.needed = dec.needed
                     /\ Consumed' = Consumed
             /\ avail >= dec.needed => (Consumed' > Consumed \/ phase' # "open")
             /\ phase' = "open" => Buffered' < dec'.needed
             /\ dec'.offset <= Len(dec'.buffer[1])]_vars

\* the decoder waits inside a data blob of which all bytes but the last are
\* delivered; only the header of the frame before is emitted
C15_Witness ==
    /\ sid = <<Hz, Dz(1)>> /\ phase = "open"
    /\ sent = FrameEnd(sid, 2) - 1
    /\ dec.status = 3 /\ Buffered = dec.needed - 1
    /\ Len(Emitted) = 1

\* the frame the consumed bytes end in, counted from 1
Cycle ==
    1 + Cardinality({j \in DOMAIN sid :
                       \/ FrameEnd(sid, j) < Consumed
                       \/ FrameEnd(sid, j) = Consumed /\ dec.status = 0})

\* C16: the status follows the cycle 0 -> 1 -> (2 for OSMHeader, 3 for OSMData)
\* -> 0 over the frames; the bytes consumed are those of the structures left
\* behind (4, the header length, datasize), needed is the length of the
\* structure awaited, 4 in status 0; each call of _transform pushes one batch
\* for each cycle it completes.
C16_StatusCycle ==
    /\ [](/\ dec.status = 0 => (dec.needed = 4 /\ Consumed = FrameStart(sid, Cycle))
          /\ dec.status = 1
               => /\ Cycle \in DOMAIN sid
                  /\ Consumed = FrameStart(sid, Cycle) + 4
                  /\ dec.needed = HeaderEnd(sid, Cycle) - Consumed
          /\ dec.status \in {2, 3}
               => /\ Cycle \in DOMAIN sid
                  /\ sid[Cycle].type = (IF dec.status = 2 THEN OSMHeaderStr ELSE OSMDataStr)
                  /\ Consumed = HeaderEnd(sid, Cycle)
                  /\ dec.needed = FrameEnd(sid, Cycle) - Consumed
          /\ dec.status \in 0 .. 3)
    /\ [][WriteStep => Len(readable') = Cycle' - Cycle]_vars

\* one call of _transform completed the cycles of two frames and is in the
\* cycle of the third
C16_Witness ==
    /\ sid = <<Hz, Dz(1), Dz(3)>> /\ phase = "open"
    /\ Cycle = 3 /\ Consumed < sent /\ Len(readable) = 2

\* C17: the offset never exceeds the buffer length; the bytes buffered from the
\* offset on are exactly the delivered bytes not yet consumed; a refill after
\* the first chunk leaves offset 0 and the unconsumed bytes followed by the
\* chunk, shorter than needed plus the chunk.
C17_BufferCursor ==
    /\ [](IsSet(dec.buffer)
            => /\ dec.offset <= Len(dec.buffer[1])
               /\ subarray(dec.buffer[1], dec.offset, Len(dec.buffer[1]))
                    = SubSeq(Input(sid), Consumed + 1, sent))
    /\ [][(WriteStep /\ IsSet(dec.buffer)) =>
            LET chunk == SubSeq(Input(sid), sent + 1, sent')
                kept == SubSeq(dec.buffer[1], dec.offset + 1, Len(dec.buffer[1]))
                d1 == Refill(dec, chunk)
            IN  /\ d1.offset = 0
                /\ d1.buffer[1] = kept \o chunk
                /\ Len(d1.buffer[1]) < dec.needed + Len(chunk)]_vars

\* after some refills the buffer no longer holds the consumed prefix and still
\* holds unconsumed bytes of a blob
C17_Witness ==
    /\ phase = "open" /\ IsSet(dec.buffer)
    /\ Len(dec.buffer[1]) < sent /\ Buffered > 0 /\ dec.status = 3 /\ dec.offset = 0

\* C24: every call of _transform ends, asking for the next chunk or throwing,
\* also when a frame declares the header length 0 or the datasize 0; and every
\* completed status cycle consumes at least 4 bytes of the buffer.
C24_TransformTerminates ==
    /\ phase # "hung"
    /\ Consumed >= 4 * (Cycle - 1)

\* every completed status cycle has consumed at least 4 bytes
CycleConsumesFour == Consumed >= 4 * (Cycle - 1)

\* a structure of length 0 is read at once, without waiting, and the read
\* throws: no state with needed = 0 is left but by a throw
ZeroLengthsRaise ==
    (IsSet(dec.buffer) /\ dec.needed = 0) =>
        /\ phase = "failed"
        /\ dec.status = 1 => err = SequenceError
        /\ dec.status \in {2, 3} => err = NotImplemented("null")

\* a call of _transform that does not end is inside parse, in the tag loop of
\* a dense record without a sentinel for every node
HangsOnlyInParse ==
    phase = "hung" =>
        /\ dec.status = 3 /\ Cycle \in DOMAIN sid /\ sid[Cycle] = Dz(4)

\* the input of C24: the chunk that completes an OSMData frame whose dense
\* record has one sentinel for two nodes; _transform never returns
TransformHangs ==
    /\ phase = "hung" /\ sid = <<Hz, Dz(4)>> /\ dec.status = 3
    /\ sent = Len(Input(sid)) /\ Len(Emitted) = 1

\* a frame of header length 0 is refused by the call that reads the length
ZeroLengthRefused ==
    /\ phase = "failed" /\ sid = <<Hz, ZeroLength>> /\ dec.status = 1 /\ dec.needed = 0
    /\ err = SequenceError

\* the stream is a sequence of complete, valid frames, all of it delivered,
\* and the end of input has been signalled
CompleteAndEnded ==
    /\ sid \in GoodStreams /\ osmopts = DefaultOpts
    /\ sent = Len(Input(sid)) /\ phase \in {"ended", "failed"}

\* C25: a stream of zero or more complete, valid frames ends without error at
\* the end of input under every chunking, also the empty stream for which no
\* chunk is delivered and a stream whose only chunks are empty.
C25_CompleteStreamEndsClean == CompleteAndEnded => (phase = "ended" /\ err = "")

\* the same, where some chunk, empty or not, was delivered before the end
EndsCleanOnceFed ==
    (CompleteAndEnded /\ IsSet(dec.buffer)) => (phase = "ended" /\ err = "")

\* the input of C25: the empty stream, the end of input signalled before any
\* chunk; _flush throws
EmptyStreamFails ==
    /\ sid = <<>> /\ sent = 0 /\ ~IsSet(dec.buffer)
    /\ phase = "failed" /\ err = FormatError

\* the empty stream delivered as an empty chunk ends without error
EmptyChunkEndsClean ==
    /\ sid = <<>> /\ sent = 0 /\ dec.buffer = Some(<<>>) /\ phase = "ended"


====
